---- MODULE Spec2Model ----
(***************************************************************************)
(* Scheduling and synchronisation core of the rCore teaching kernel:       *)
(* the per-process resource ledger (available / allocation / need) kept by *)
(* the mutex and semaphore syscalls of os/src/syscall/sync.rs, the         *)
(* Banker's safety check they run, the primitives they drive, and the      *)
(* single-core cooperative dispatch of os/src/task.                        *)
(*                                                                         *)
(* A Vec is a function on 0..len-1; a wait queue (VecDeque) is a sequence. *)
(* The kernel runs one syscall handler at a time, without preemption, up   *)
(* to the point where the handler blocks or yields: one action per         *)
(* handler, plus one per continuation after a suspension.                  *)
(***************************************************************************)
EXTENDS Integers, Sequences, FiniteSets, TLC

\* ------------------------------------------------------------------ bounds
\* Threads of the process (tids 0..NumThreads-1) where the whole interface is
\* exercised, and where one resource class is.
NumThreads == 2
ClassThreads == 3
\* Slots a resource table may grow to.
MaxMutex == 1
MaxSem == 1
MaxCondvar == 1
\* Slots of each table where deadlock detection is on from the start.
DetectSlots == 2
\* Largest creation count of a semaphore; semaphore_up stops once
\* semaphore_available exceeds it.
MaxCount == 1
\* Cap on need[tid][id]: a thread no longer requests once its entry reached it.
MaxNeed == 1
\* Cap on a wrapped allocation[tid][id]: a thread whose entry is already
\* MaxUnderflow below zero (modulo USIZE_MOD) no longer releases that resource.
MaxUnderflow == 1
\* usize arithmetic wraps modulo USIZE_MOD in a build without overflow checks.
\* The kernel's usize is 64 bits wide; the model keeps the wrap with a modulus
\* the checker's integers can hold.
USIZE_MOD == 65536

\* --------------------------------------------------------------- constants
\* sys_mutex_lock / sys_semaphore_down: return -0xdead
WOULD_DEADLOCK == -57005
\* get_waking_tid: "no thread"
NO_TID == -1
\* ret[t] while thread t is inside a handler that has not returned yet
NO_RET == WOULD_DEADLOCK - 1

VARIABLES
    overflow_checks,            \* build profile: usize overflow panics (TRUE) or wraps
    panicked,                   \* the kernel panicked
    is_enable_deadlock_detect,  \* ProcessControlBlockInner.is_enable_deadlock_detect
    mutex_list,                 \* Vec<Option<Arc<dyn Mutex>>>: "spin" | "blocking" | "none"
    mutex_available,            \* Vec<usize>
    mutex_allocation,           \* Vec<Vec<usize>>, row per tid
    mutex_need,                 \* Vec<Vec<usize>>, row per tid
    mutex_locked,               \* per mutex: the primitive's locked flag
    mutex_wait_queue,           \* per mutex: MutexBlocking's wait queue
    mutex_holder,               \* per mutex: the thread whose lock() acquired it, or NO_TID
    semaphore_list,             \* Vec<Option<Arc<Semaphore>>>: "sem" | "none"
    semaphore_available,
    semaphore_allocation,
    semaphore_need,
    sem_count,                  \* per semaphore: Semaphore.count (isize)
    sem_wait_queue,             \* per semaphore: Semaphore.wait_queue
    sem_total,                  \* per semaphore: the res_count it was created with
    condvar_list,               \* Vec<Option<Arc<Condvar>>>: "condvar" | "none"
    condvar_wait_queue,
    task_status,                \* per tid: "Ready" | "Running" | "Blocked"
    current,                    \* Processor.current: a tid or NO_TID
    ready_queue,                \* TaskManager.ready_queue
    pc,                         \* per tid: where the thread resumes
    ret,                        \* per tid: return value of its last syscall
    script,                     \* per tid: the calls a scripted thread still makes
    lock_rets,                  \* per tid: what a scripted thread's mutex_lock calls returned
    verdict,                    \* outcome of the last safety check run on its own
    task_stride,                \* per tid: TaskControlBlockInner.task_stride
    task_priority,              \* per tid: TaskControlBlockInner.task_priority
    task_dispatches,            \* per tid: how many times fetch() returned the thread
    kpath,                      \* per control flow: the events its kernel path still makes
    on_cpu,                     \* the control flow the processor executes: a tid or IDLE
    borrowed,                   \* the UPSafeCells whose exclusive access is held
    children,                   \* the calling process's children: pid, zombie, exit code
    exit_code_out               \* what sys_waitpid last wrote through exit_code_ptr

stride_state == <<task_stride, task_priority, task_dispatches>>
access_state == <<kpath, on_cpu, borrowed>>
family_state == <<children, exit_code_out>>
ledger == <<mutex_available, mutex_allocation, mutex_need,
            semaphore_available, semaphore_allocation, semaphore_need>>
tables == <<mutex_list, semaphore_list, condvar_list, sem_total>>
primitives == <<mutex_locked, mutex_wait_queue, mutex_holder,
                sem_count, sem_wait_queue, condvar_wait_queue>>
sched == <<task_status, current, ready_queue, pc>>
build == <<overflow_checks, panicked>>
vars == <<overflow_checks, panicked, is_enable_deadlock_detect,
          mutex_list, mutex_available, mutex_allocation, mutex_need,
          mutex_locked, mutex_wait_queue, mutex_holder,
          semaphore_list, semaphore_available, semaphore_allocation, semaphore_need,
          sem_count, sem_wait_queue, sem_total,
          condvar_list, condvar_wait_queue,
          task_status, current, ready_queue, pc, ret, script, lock_rets, verdict,
          task_stride, task_priority, task_dispatches, kpath, on_cpu, borrowed,
          children, exit_code_out>>

\* ------------------------------------------------------------- Vec, usize
Tids == DOMAIN task_status

VecLen(v) == Cardinality(DOMAIN v)

EmptyVec == [i \in {} |-> 0]

\* Vec::push
VecPush(v, x) == [i \in 0..VecLen(v) |-> IF i < VecLen(v) THEN v[i] ELSE x]

\* Vec::insert(id, x): the elements at id.. move one place up
VecInsert(v, id, x) ==
    [i \in 0..VecLen(v) |-> IF i < id THEN v[i] ELSE IF i = id THEN x ELSE v[i - 1]]

\* No search for an empty slot: every creation appends.
FirstNone_append(list) == -1

\* iter().enumerate().find(|(_, item)| item.is_none()): lowest empty slot, or -1
FirstNone(list) ==
    IF \E i \in DOMAIN list : list[i] = "none"
    THEN CHOOSE i \in DOMAIN list : list[i] = "none" /\ \A k \in DOMAIN list : list[k] = "none" => i <= k
    ELSE -1

\* a += b and a -= b on usize: the wrapped value, and whether it overflowed
AddU(a, b) == (a + b) % USIZE_MOD
AddOvf(a, b) == a + b >= USIZE_MOD
SubU(a, b) == (a - b + USIZE_MOD) % USIZE_MOD
SubOvf(a, b) == a < b

RECURSIVE SumOver(_, _, _)
SumOver(S, f, r) ==
    IF S = {} THEN 0
    ELSE LET t == CHOOSE x \in S : TRUE IN f[t][r] + SumOver(S \ {t}, f, r)

\* ------------------------------------------------------------ safety check
\* for j in 0..mnum { if work[j] < need[i][j] { is_executable = false } }
IsExecutable(work, need_i, mnum) ==
    \A j \in 0..(mnum - 1) : ~(work[j] < need_i[j])

\* for j in 0..mnum { work[j] += allocation[i][j] }
AddRow(work, alloc_i, mnum) ==
    [j \in DOMAIN work |-> IF j < mnum THEN AddU(work[j], alloc_i[j]) ELSE work[j]]

AddRowOvf(work, alloc_i, mnum) ==
    \E j \in 0..(mnum - 1) : AddOvf(work[j], alloc_i[j])

\* row i of the matrix exists and has the mnum columns the loops index
RowInBounds(mat, i, mnum) ==
    i \in DOMAIN mat /\ \A j \in 0..(mnum - 1) : j \in DOMAIN mat[i]

\* One pass of `for i in 0..tnum`, from thread i on. st = [work, finish, cnt,
\* panic, ovf]: panic is an index out of bounds, ovf a usize overflow.
RECURSIVE BankerFor(_, _, _, _, _, _)
BankerFor(i, st, allocation, need, tnum, mnum) ==
    IF i >= tnum \/ st.panic THEN st
    ELSE IF st.finish[i] = FALSE
    THEN IF ~RowInBounds(need, i, mnum)
         THEN [st EXCEPT !.panic = TRUE]
         ELSE IF IsExecutable(st.work, need[i], mnum)
         THEN IF ~RowInBounds(allocation, i, mnum)
              THEN [st EXCEPT !.panic = TRUE]
              ELSE BankerFor(i + 1,
                             [st EXCEPT !.work = AddRow(st.work, allocation[i], mnum),
                                        !.ovf = st.ovf \/ AddRowOvf(st.work, allocation[i], mnum),
                                        !.finish = [st.finish EXCEPT ![i] = TRUE]],
                             allocation, need, tnum, mnum)
         ELSE BankerFor(i + 1, [st EXCEPT !.cnt = st.cnt + 1], allocation, need, tnum, mnum)
    ELSE BankerFor(i + 1, [st EXCEPT !.cnt = st.cnt + 1], allocation, need, tnum, mnum)

\* while cnt != tnum { cnt = 0; for i in 0..tnum { ... } }
RECURSIVE BankerWhile(_, _, _, _, _)
BankerWhile(st, allocation, need, tnum, mnum) ==
    IF st.cnt = tnum \/ st.panic THEN st
    ELSE BankerWhile(BankerFor(0, [st EXCEPT !.cnt = 0], allocation, need, tnum, mnum),
                     allocation, need, tnum, mnum)

\* The number of threads the check scans: the handlers take it from the
\* resource table (let tnum = process_inner.mutex_list.len()).
ThreadCount(list) == VecLen(list)

\* The deadlock detection block of sys_mutex_lock / sys_semaphore_down, run on
\* the ledger with the caller's need already incremented.
\* safe: `for f in finish` met no false entry.
SafetyCheck(available, allocation, need, tnum, mnum) ==
    LET st == BankerWhile([work |-> available,
                           finish |-> [i \in 0..(tnum - 1) |-> FALSE],
                           cnt |-> 0, panic |-> FALSE, ovf |-> FALSE],
                          allocation, need, tnum, mnum)
    IN  [safe |-> \A i \in 0..(tnum - 1) : st.finish[i],
         panic |-> st.panic,
         ovf |-> st.ovf]

\* --------------------------------------------------------------- dispatch
\* A thread may enter a syscall: it is the running thread, in user code.
CanCall(t) ==
    /\ ~panicked
    /\ current = t
    /\ task_status[t] = "Running"
    /\ pc[t].at = "user"

\* TaskManager::add
add_task(queue, t) == Append(queue, t)

RemoveAt(queue, idx) ==
    [k \in 1..(Len(queue) - 1) |-> IF k < idx THEN queue[k] ELSE queue[k + 1]]

\* block_current_and_run_next: the caller becomes Blocked and control goes to
\* the idle loop; the thread resumes at `at` once it is woken and dispatched.
BlockCurrent(t, at, id) ==
    /\ task_status' = [task_status EXCEPT ![t] = "Blocked"]
    /\ current' = NO_TID
    /\ pc' = [pc EXCEPT ![t] = [at |-> at, id |-> id]]
    /\ ret' = [ret EXCEPT ![t] = NO_RET]
    /\ UNCHANGED ready_queue

\* suspend_current_and_run_next: the caller goes back to the ready queue.
SuspendCurrent(t, at, id) ==
    /\ task_status' = [task_status EXCEPT ![t] = "Ready"]
    /\ ready_queue' = add_task(ready_queue, t)
    /\ current' = NO_TID
    /\ pc' = [pc EXCEPT ![t] = [at |-> at, id |-> id]]

\* The handler returns v to the caller, which stays the running thread.
Return(t, v) ==
    /\ ret' = [ret EXCEPT ![t] = v]
    /\ UNCHANGED sched

\* A panic stops the kernel.
KernelPanic ==
    /\ panicked' = TRUE
    /\ UNCHANGED <<overflow_checks, sched, ret>>

\* run_tasks: the idle loop takes a Ready unit from the ready queue, marks it
\* Running and installs it as current.  Which unit fetch() returns depends on
\* the strides, which advance with every dispatch of units that only yield;
\* the synchronisation model leaves that choice open.
run_tasks ==
    /\ ~panicked
    /\ current = NO_TID
    /\ \E idx \in 1..Len(ready_queue) :
        LET t == ready_queue[idx] IN
        /\ ready_queue' = RemoveAt(ready_queue, idx)
        /\ task_status' = [task_status EXCEPT ![t] = "Running"]
        /\ current' = t
    /\ UNCHANGED <<build, is_enable_deadlock_detect, ledger, tables, primitives,
                   pc, ret>>

\* sys_yield (or a timer interrupt in user code): suspend_current_and_run_next
suspend_current_and_run_next(t) ==
    /\ CanCall(t)
    /\ SuspendCurrent(t, "user", 0)
    /\ UNCHANGED <<build, is_enable_deadlock_detect, ledger, tables, primitives,
                   ret>>


\* ------------------------------------------------------- mutex primitives
\* Mutex::get_waking_tid: the thread unlock() will hand the mutex to.  A
\* spinning mutex has no wait queue and reports none.
mutex_get_waking_tid(m) ==
    IF mutex_list[m] = "blocking" /\ mutex_wait_queue[m] # <<>>
    THEN Head(mutex_wait_queue[m])
    ELSE NO_TID

\* Mutex::lock.  Blocking: grant if unlocked, else enqueue the caller and
\* block.  Spinning: grant if unlocked, else yield and poll again.
MutexLock(t, m) ==
    IF mutex_locked[m]
    THEN IF mutex_list[m] = "blocking"
         THEN /\ mutex_wait_queue' = [mutex_wait_queue EXCEPT ![m] = Append(@, t)]
              /\ UNCHANGED <<mutex_locked, mutex_holder>>
              /\ BlockCurrent(t, "lock_wake", m)
         ELSE /\ UNCHANGED <<mutex_locked, mutex_wait_queue, mutex_holder>>
              /\ SuspendCurrent(t, "spin", m)
              /\ ret' = [ret EXCEPT ![t] = NO_RET]
    ELSE /\ mutex_locked' = [mutex_locked EXCEPT ![m] = TRUE]
         /\ mutex_holder' = [mutex_holder EXCEPT ![m] = t]
         /\ UNCHANGED mutex_wait_queue
         /\ Return(t, 0)

\* Mutex::unlock.  Blocking: hand the mutex to the earliest waiter (the flag
\* stays set), or clear the flag.  Spinning: clear the flag.
MutexUnlock(m) ==
    IF mutex_list[m] = "blocking" /\ mutex_wait_queue[m] # <<>>
    THEN /\ mutex_wait_queue' = [mutex_wait_queue EXCEPT ![m] = Tail(@)]
         /\ mutex_holder' = [mutex_holder EXCEPT ![m] = Head(mutex_wait_queue[m])]
         /\ UNCHANGED mutex_locked
    ELSE /\ mutex_locked' = [mutex_locked EXCEPT ![m] = FALSE]
         /\ mutex_holder' = [mutex_holder EXCEPT ![m] = NO_TID]
         /\ UNCHANGED mutex_wait_queue

\* The waiter a release dequeues is re-admitted as Ready (add_task); the
\* releasing thread keeps running.
WakeTask(w) ==
    IF w # NO_TID
    THEN /\ task_status' = [task_status EXCEPT ![w] = "Ready"]
         /\ ready_queue' = add_task(ready_queue, w)
         /\ UNCHANGED <<current, pc>>
    ELSE UNCHANGED sched

\* ---------------------------------------------------------- mutex syscalls
\* process_inner.mutex_need[tid][mutex_id] += 1
NeedInc(need, tid, id) == [need EXCEPT ![tid][id] = AddU(@, 1)]

\* The refusal without its rollback: need keeps the increment.
RollbackNeed_missing(need, tid, id) == need

\* process_inner.mutex_need[tid][mutex_id] -= 1 before return -0xdead
RollbackNeed(need, tid, id) == [need EXCEPT ![tid][id] = SubU(@, 1)]

\* available[id] -= 1; allocation[tid][id] += 1
GrantAvailable(available, id) == [available EXCEPT ![id] = SubU(@, 1)]
GrantAllocation(allocation, tid, id) == [allocation EXCEPT ![tid][id] = AddU(@, 1)]

\* available[id] += 1; allocation[tid][id] -= 1
ReleaseAvailable(available, id) == [available EXCEPT ![id] = AddU(@, 1)]
ReleaseAllocation(allocation, tid, id) == [allocation EXCEPT ![tid][id] = SubU(@, 1)]

\* The waking thread's row: available -= 1, allocation += 1, need -= 1
WakeAvailable(available, id) == [available EXCEPT ![id] = SubU(@, 1)]
WakeAllocation(allocation, w, id) == [allocation EXCEPT ![w][id] = AddU(@, 1)]
WakeNeed(need, w, id) == [need EXCEPT ![w][id] = SubU(@, 1)]

sys_mutex_create(t, blocking) ==
    /\ CanCall(t)
    /\ LET id == FirstNone(mutex_list)
           kind == IF blocking THEN "blocking" ELSE "spin"
       IN IF id # -1
          THEN /\ mutex_list' = [mutex_list EXCEPT ![id] = kind]
               /\ mutex_available' = VecInsert(mutex_available, id, 1)
               /\ mutex_allocation' = [x \in DOMAIN mutex_allocation |->
                                          VecInsert(mutex_allocation[x], id, 0)]
               /\ mutex_need' = [x \in DOMAIN mutex_need |-> VecInsert(mutex_need[x], id, 0)]
               /\ mutex_locked' = [mutex_locked EXCEPT ![id] = FALSE]
               /\ mutex_wait_queue' = [mutex_wait_queue EXCEPT ![id] = <<>>]
               /\ mutex_holder' = [mutex_holder EXCEPT ![id] = NO_TID]
               /\ Return(t, id)
          ELSE /\ mutex_list' = VecPush(mutex_list, kind)
               /\ mutex_available' = VecPush(mutex_available, 1)
               /\ mutex_allocation' = [x \in DOMAIN mutex_allocation |->
                                          VecPush(mutex_allocation[x], 0)]
               /\ mutex_need' = [x \in DOMAIN mutex_need |-> VecPush(mutex_need[x], 0)]
               /\ mutex_locked' = VecPush(mutex_locked, FALSE)
               /\ mutex_wait_queue' = VecPush(mutex_wait_queue, <<>>)
               /\ mutex_holder' = VecPush(mutex_holder, NO_TID)
               /\ Return(t, VecLen(mutex_list))
    /\ UNCHANGED <<build, is_enable_deadlock_detect,
                   semaphore_list, semaphore_available, semaphore_allocation, semaphore_need,
                   sem_count, sem_wait_queue, sem_total, condvar_list, condvar_wait_queue>>

\* The safety check runs whatever the flag says.
DetectEnabled_always(flag) == TRUE

\* if process_inner.is_enable_deadlock_detect == true
DetectEnabled(flag) == flag

sys_mutex_lock(t, m) ==
    /\ CanCall(t)
    /\ m \in DOMAIN mutex_list
    /\ mutex_list[m] # "none"
    /\ LET tnum == ThreadCount(mutex_list)
           mnum == VecLen(mutex_available)
           need1 == NeedInc(mutex_need, t, m)
           chk == SafetyCheck(mutex_available, mutex_allocation, need1, tnum, mnum)
       IN IF mutex_available[m] = 0
          THEN IF DetectEnabled(is_enable_deadlock_detect)
               THEN IF chk.panic \/ (overflow_checks /\ chk.ovf)
                    THEN /\ KernelPanic
                         /\ mutex_need' = need1
                         /\ UNCHANGED <<mutex_available, mutex_allocation,
                                        mutex_locked, mutex_wait_queue, mutex_holder>>
                    ELSE IF ~chk.safe
                    THEN /\ mutex_need' = RollbackNeed(need1, t, m)
                         /\ Return(t, WOULD_DEADLOCK)
                         /\ UNCHANGED <<panicked, overflow_checks, mutex_available,
                                        mutex_allocation, mutex_locked, mutex_wait_queue,
                                        mutex_holder>>
                    ELSE /\ mutex_need' = need1
                         /\ MutexLock(t, m)
                         /\ UNCHANGED <<panicked, overflow_checks, mutex_available,
                                        mutex_allocation>>
               ELSE /\ mutex_need' = need1
                    /\ MutexLock(t, m)
                    /\ UNCHANGED <<panicked, overflow_checks, mutex_available,
                                   mutex_allocation>>
          ELSE IF overflow_checks /\ AddOvf(mutex_allocation[t][m], 1)
               THEN /\ KernelPanic
                    /\ mutex_available' = GrantAvailable(mutex_available, m)
                    /\ UNCHANGED <<mutex_allocation, mutex_need,
                                   mutex_locked, mutex_wait_queue, mutex_holder>>
               ELSE /\ mutex_available' = GrantAvailable(mutex_available, m)
                    /\ mutex_allocation' = GrantAllocation(mutex_allocation, t, m)
                    /\ MutexLock(t, m)
                    /\ UNCHANGED <<panicked, overflow_checks, mutex_need>>
    /\ UNCHANGED <<is_enable_deadlock_detect, tables,
                   semaphore_available, semaphore_allocation, semaphore_need,
                   sem_count, sem_wait_queue, condvar_wait_queue>>

sys_mutex_unlock(t, m) ==
    /\ CanCall(t)
    /\ m \in DOMAIN mutex_list
    /\ mutex_list[m] # "none"
    /\ LET avail1 == ReleaseAvailable(mutex_available, m)
           waking_tid == mutex_get_waking_tid(m)
       IN IF overflow_checks /\ (AddOvf(mutex_available[m], 1) \/ SubOvf(mutex_allocation[t][m], 1))
          THEN /\ KernelPanic
               /\ mutex_available' = IF AddOvf(mutex_available[m], 1) THEN mutex_available ELSE avail1
               /\ UNCHANGED <<mutex_allocation, mutex_need,
                              mutex_locked, mutex_wait_queue, mutex_holder>>
          ELSE LET alloc1 == ReleaseAllocation(mutex_allocation, t, m) IN
               IF waking_tid # -1
               THEN IF overflow_checks /\ (AddOvf(alloc1[waking_tid][m], 1)
                                           \/ SubOvf(mutex_need[waking_tid][m], 1))
                    THEN /\ KernelPanic
                         /\ mutex_available' = WakeAvailable(avail1, m)
                         /\ mutex_allocation' = alloc1
                         /\ UNCHANGED <<mutex_need, mutex_locked, mutex_wait_queue, mutex_holder>>
                    ELSE /\ mutex_available' = WakeAvailable(avail1, m)
                         /\ mutex_allocation' = WakeAllocation(alloc1, waking_tid, m)
                         /\ mutex_need' = WakeNeed(mutex_need, waking_tid, m)
                         /\ MutexUnlock(m)
                         /\ WakeTask(mutex_get_waking_tid(m))
                         /\ ret' = [ret EXCEPT ![t] = 0]
                         /\ UNCHANGED <<panicked, overflow_checks>>
               ELSE /\ mutex_available' = avail1
                    /\ mutex_allocation' = alloc1
                    /\ MutexUnlock(m)
                    /\ WakeTask(mutex_get_waking_tid(m))
                    /\ ret' = [ret EXCEPT ![t] = 0]
                    /\ UNCHANGED <<panicked, overflow_checks, mutex_need>>
    /\ UNCHANGED <<is_enable_deadlock_detect, tables,
                   semaphore_available, semaphore_allocation, semaphore_need,
                   sem_count, sem_wait_queue, condvar_wait_queue>>

\* The tail of a handler whose primitive blocked the caller: lock(), down()
\* or wait() returns once the thread is woken and dispatched, and the
\* handler returns 0.
resume_blocked(t) ==
    /\ ~panicked
    /\ current = t
    /\ pc[t].at \in {"lock_wake", "down_wake", "wait_wake"}
    /\ pc' = [pc EXCEPT ![t] = [at |-> "user", id |-> 0]]
    /\ ret' = [ret EXCEPT ![t] = 0]
    /\ UNCHANGED <<build, is_enable_deadlock_detect, ledger, tables, primitives,
                   task_status, current, ready_queue>>

\* MutexSpin::lock after a yield: poll the flag again.
MutexSpin_lock_poll(t) ==
    /\ ~panicked
    /\ current = t
    /\ pc[t].at = "spin"
    /\ LET m == pc[t].id IN
       IF mutex_locked[m]
       THEN /\ SuspendCurrent(t, "spin", m)
            /\ UNCHANGED <<mutex_locked, mutex_holder, ret>>
       ELSE /\ mutex_locked' = [mutex_locked EXCEPT ![m] = TRUE]
            /\ mutex_holder' = [mutex_holder EXCEPT ![m] = t]
            /\ pc' = [pc EXCEPT ![t] = [at |-> "user", id |-> 0]]
            /\ ret' = [ret EXCEPT ![t] = 0]
            /\ UNCHANGED <<task_status, current, ready_queue>>
    /\ UNCHANGED <<build, is_enable_deadlock_detect, ledger, tables,
                   mutex_wait_queue, sem_count, sem_wait_queue, condvar_wait_queue>>


\* --------------------------------------------------- semaphore primitive
\* Semaphore::get_waking_tid: the thread up() will wake, or none
sem_get_waking_tid(s) ==
    IF sem_wait_queue[s] # <<>> THEN Head(sem_wait_queue[s]) ELSE NO_TID

\* Semaphore::down: take a unit; with none left, enqueue the caller and block.
SemDown(t, s) ==
    /\ sem_count' = [sem_count EXCEPT ![s] = @ - 1]
    /\ IF sem_count[s] - 1 < 0
       THEN /\ sem_wait_queue' = [sem_wait_queue EXCEPT ![s] = Append(@, t)]
            /\ BlockCurrent(t, "down_wake", s)
       ELSE /\ UNCHANGED sem_wait_queue
            /\ Return(t, 0)

\* Semaphore::up: give a unit back; the earliest waiter, if any, is dequeued.
SemUp(s) ==
    /\ sem_count' = [sem_count EXCEPT ![s] = @ + 1]
    /\ sem_wait_queue' = [sem_wait_queue EXCEPT ![s] = IF @ # <<>> THEN Tail(@) ELSE @]

\* ------------------------------------------------------ semaphore syscalls
sys_semaphore_create(t, res_count) ==
    /\ CanCall(t)
    /\ LET id == FirstNone(semaphore_list) IN
       IF id # -1
       THEN /\ semaphore_list' = [semaphore_list EXCEPT ![id] = "sem"]
            /\ semaphore_available' = VecInsert(semaphore_available, id, res_count)
            /\ semaphore_allocation' = [x \in DOMAIN semaphore_allocation |->
                                           VecInsert(semaphore_allocation[x], id, 0)]
            /\ semaphore_need' = [x \in DOMAIN semaphore_need |->
                                     VecInsert(semaphore_need[x], id, 0)]
            /\ sem_count' = [sem_count EXCEPT ![id] = res_count]
            /\ sem_wait_queue' = [sem_wait_queue EXCEPT ![id] = <<>>]
            /\ sem_total' = [sem_total EXCEPT ![id] = res_count]
            /\ Return(t, id)
       ELSE /\ semaphore_list' = VecPush(semaphore_list, "sem")
            /\ semaphore_available' = VecPush(semaphore_available, res_count)
            /\ semaphore_allocation' = [x \in DOMAIN semaphore_allocation |->
                                           VecPush(semaphore_allocation[x], 0)]
            /\ semaphore_need' = [x \in DOMAIN semaphore_need |->
                                     VecPush(semaphore_need[x], 0)]
            /\ sem_count' = VecPush(sem_count, res_count)
            /\ sem_wait_queue' = VecPush(sem_wait_queue, <<>>)
            /\ sem_total' = VecPush(sem_total, res_count)
            /\ Return(t, VecLen(semaphore_list))
    /\ UNCHANGED <<build, is_enable_deadlock_detect,
                   mutex_list, mutex_available, mutex_allocation, mutex_need,
                   mutex_locked, mutex_wait_queue, mutex_holder,
                   condvar_list, condvar_wait_queue>>

sys_semaphore_up(t, s) ==
    /\ CanCall(t)
    /\ s \in DOMAIN semaphore_list
    /\ semaphore_list[s] # "none"
    /\ LET avail1 == ReleaseAvailable(semaphore_available, s)
           waking_tid == sem_get_waking_tid(s)
       IN IF overflow_checks /\ (AddOvf(semaphore_available[s], 1)
                                 \/ SubOvf(semaphore_allocation[t][s], 1))
          THEN /\ KernelPanic
               /\ semaphore_available' = IF AddOvf(semaphore_available[s], 1)
                                         THEN semaphore_available ELSE avail1
               /\ UNCHANGED <<semaphore_allocation, semaphore_need, sem_count, sem_wait_queue>>
          ELSE LET alloc1 == ReleaseAllocation(semaphore_allocation, t, s) IN
               IF waking_tid # -1
               THEN IF overflow_checks /\ (AddOvf(alloc1[waking_tid][s], 1)
                                           \/ SubOvf(semaphore_need[waking_tid][s], 1))
                    THEN /\ KernelPanic
                         /\ semaphore_available' = WakeAvailable(avail1, s)
                         /\ semaphore_allocation' = alloc1
                         /\ UNCHANGED <<semaphore_need, sem_count, sem_wait_queue>>
                    ELSE /\ semaphore_available' = WakeAvailable(avail1, s)
                         /\ semaphore_allocation' = WakeAllocation(alloc1, waking_tid, s)
                         /\ semaphore_need' = WakeNeed(semaphore_need, waking_tid, s)
                         /\ SemUp(s)
                         /\ WakeTask(sem_get_waking_tid(s))
                         /\ ret' = [ret EXCEPT ![t] = 0]
                         /\ UNCHANGED <<panicked, overflow_checks>>
               ELSE /\ semaphore_available' = avail1
                    /\ semaphore_allocation' = alloc1
                    /\ SemUp(s)
                    /\ WakeTask(sem_get_waking_tid(s))
                    /\ ret' = [ret EXCEPT ![t] = 0]
                    /\ UNCHANGED <<panicked, overflow_checks, semaphore_need>>
    /\ UNCHANGED <<is_enable_deadlock_detect, tables,
                   mutex_available, mutex_allocation, mutex_need,
                   mutex_locked, mutex_wait_queue, mutex_holder, condvar_wait_queue>>

sys_semaphore_down(t, s) ==
    /\ CanCall(t)
    /\ s \in DOMAIN semaphore_list
    /\ semaphore_list[s] # "none"
    /\ LET tnum == ThreadCount(semaphore_list)
           snum == VecLen(semaphore_available)
           need1 == NeedInc(semaphore_need, t, s)
           chk == SafetyCheck(semaphore_available, semaphore_allocation, need1, tnum, snum)
       IN IF semaphore_available[s] = 0
          THEN IF DetectEnabled(is_enable_deadlock_detect)
               THEN IF chk.panic \/ (overflow_checks /\ chk.ovf)
                    THEN /\ KernelPanic
                         /\ semaphore_need' = need1
                         /\ UNCHANGED <<semaphore_available, semaphore_allocation,
                                        sem_count, sem_wait_queue>>
                    ELSE IF ~chk.safe
                    THEN /\ semaphore_need' = RollbackNeed(need1, t, s)
                         /\ Return(t, WOULD_DEADLOCK)
                         /\ UNCHANGED <<panicked, overflow_checks, semaphore_available,
                                        semaphore_allocation, sem_count, sem_wait_queue>>
                    ELSE /\ semaphore_need' = need1
                         /\ SemDown(t, s)
                         /\ UNCHANGED <<panicked, overflow_checks, semaphore_available,
                                        semaphore_allocation>>
               ELSE /\ semaphore_need' = need1
                    /\ SemDown(t, s)
                    /\ UNCHANGED <<panicked, overflow_checks, semaphore_available,
                                   semaphore_allocation>>
          ELSE IF overflow_checks /\ AddOvf(semaphore_allocation[t][s], 1)
               THEN /\ KernelPanic
                    /\ semaphore_available' = GrantAvailable(semaphore_available, s)
                    /\ UNCHANGED <<semaphore_allocation, semaphore_need,
                                   sem_count, sem_wait_queue>>
               ELSE /\ semaphore_available' = GrantAvailable(semaphore_available, s)
                    /\ semaphore_allocation' = GrantAllocation(semaphore_allocation, t, s)
                    /\ SemDown(t, s)
                    /\ UNCHANGED <<panicked, overflow_checks, semaphore_need>>
    /\ UNCHANGED <<is_enable_deadlock_detect, tables,
                   mutex_available, mutex_allocation, mutex_need,
                   mutex_locked, mutex_wait_queue, mutex_holder, condvar_wait_queue>>

\* -------------------------------------------------------- condvar syscalls
sys_condvar_create(t) ==
    /\ CanCall(t)
    /\ LET id == FirstNone(condvar_list) IN
       IF id # -1
       THEN /\ condvar_list' = [condvar_list EXCEPT ![id] = "condvar"]
            /\ condvar_wait_queue' = [condvar_wait_queue EXCEPT ![id] = <<>>]
            /\ Return(t, id)
       ELSE /\ condvar_list' = VecPush(condvar_list, "condvar")
            /\ condvar_wait_queue' = VecPush(condvar_wait_queue, <<>>)
            /\ Return(t, VecLen(condvar_list))
    /\ UNCHANGED <<build, is_enable_deadlock_detect, ledger,
                   mutex_list, semaphore_list, sem_total,
                   mutex_locked, mutex_wait_queue, mutex_holder, sem_count, sem_wait_queue>>

\* The head of the wait queue is woken but stays queued.
sys_condvar_signal_keeps(t, c) ==
    /\ CanCall(t)
    /\ c \in DOMAIN condvar_list
    /\ condvar_list[c] # "none"
    /\ UNCHANGED condvar_wait_queue
    /\ WakeTask(IF condvar_wait_queue[c] # <<>> THEN Head(condvar_wait_queue[c]) ELSE NO_TID)
    /\ ret' = [ret EXCEPT ![t] = 0]
    /\ UNCHANGED <<build, is_enable_deadlock_detect, ledger, tables,
                   mutex_locked, mutex_wait_queue, mutex_holder, sem_count, sem_wait_queue>>

\* condvar.signal(): dequeue and re-admit at most one waiter
sys_condvar_signal(t, c) ==
    /\ CanCall(t)
    /\ c \in DOMAIN condvar_list
    /\ condvar_list[c] # "none"
    /\ condvar_wait_queue' = [condvar_wait_queue EXCEPT ![c] = IF @ # <<>> THEN Tail(@) ELSE @]
    /\ WakeTask(IF condvar_wait_queue[c] # <<>> THEN Head(condvar_wait_queue[c]) ELSE NO_TID)
    /\ ret' = [ret EXCEPT ![t] = 0]
    /\ UNCHANGED <<build, is_enable_deadlock_detect, ledger, tables,
                   mutex_locked, mutex_wait_queue, mutex_holder, sem_count, sem_wait_queue>>

\* condvar.wait(mutex): release the mutex on the primitive, enqueue the
\* caller on the condvar and block.  The handler does not touch the ledger.
sys_condvar_wait(t, c, m) ==
    /\ CanCall(t)
    /\ c \in DOMAIN condvar_list
    /\ condvar_list[c] # "none"
    /\ m \in DOMAIN mutex_list
    /\ mutex_list[m] # "none"
    /\ MutexUnlock(m)
    /\ condvar_wait_queue' = [condvar_wait_queue EXCEPT ![c] = Append(@, t)]
    /\ LET w == mutex_get_waking_tid(m) IN
       /\ task_status' = [x \in Tids |-> IF x = t THEN "Blocked"
                                          ELSE IF x = w THEN "Ready" ELSE task_status[x]]
       /\ ready_queue' = IF w # NO_TID THEN add_task(ready_queue, w) ELSE ready_queue
    /\ current' = NO_TID
    /\ pc' = [pc EXCEPT ![t] = [at |-> "wait_wake", id |-> c]]
    /\ ret' = [ret EXCEPT ![t] = NO_RET]
    /\ UNCHANGED <<build, is_enable_deadlock_detect, ledger, tables,
                   sem_count, sem_wait_queue>>

\* Every value but 0 switches detection on.
sys_enable_deadlock_detect_nonzero(t, enabled) ==
    /\ CanCall(t)
    /\ is_enable_deadlock_detect' = (enabled # 0)
    /\ Return(t, 0)
    /\ UNCHANGED <<build, ledger, tables, primitives>>

\* ------------------------------------------------------- deadlock toggle
sys_enable_deadlock_detect(t, enabled) ==
    /\ CanCall(t)
    /\ IF enabled = 0
       THEN is_enable_deadlock_detect' = FALSE /\ Return(t, 0)
       ELSE IF enabled = 1
       THEN is_enable_deadlock_detect' = TRUE /\ Return(t, 0)
       ELSE UNCHANGED is_enable_deadlock_detect /\ Return(t, -1)
    /\ UNCHANGED <<build, ledger, tables, primitives>>

\* ---------------------------------------------------------- specification
\* The process after its n threads were created: every thread has a ledger
\* row (of length 0: no resource yet) and is Ready.  Deadlock detection is
\* off by default; detect = TRUE is the process after the main thread's
\* enable_deadlock_detect(1).
InitProcess(n, detect) ==
    /\ panicked = FALSE
    /\ is_enable_deadlock_detect = detect
    /\ mutex_list = EmptyVec
    /\ mutex_available = EmptyVec
    /\ mutex_allocation = [t \in 0..(n - 1) |-> EmptyVec]
    /\ mutex_need = [t \in 0..(n - 1) |-> EmptyVec]
    /\ mutex_locked = EmptyVec
    /\ mutex_wait_queue = EmptyVec
    /\ mutex_holder = EmptyVec
    /\ semaphore_list = EmptyVec
    /\ semaphore_available = EmptyVec
    /\ semaphore_allocation = [t \in 0..(n - 1) |-> EmptyVec]
    /\ semaphore_need = [t \in 0..(n - 1) |-> EmptyVec]
    /\ sem_count = EmptyVec
    /\ sem_wait_queue = EmptyVec
    /\ sem_total = EmptyVec
    /\ condvar_list = EmptyVec
    /\ condvar_wait_queue = EmptyVec
    /\ task_status = [t \in 0..(n - 1) |-> "Ready"]
    /\ current = NO_TID
    /\ ready_queue = [k \in 1..n |-> k - 1]
    /\ pc = [t \in 0..(n - 1) |-> [at |-> "user", id |-> 0]]
    /\ ret = [t \in 0..(n - 1) |-> 0]

\* ------------------------------------------------ calls of the threads
\* What a thread of the process may call.  The callers keep the discipline
\* the handlers rely on: ids are valid, a mutex is unlocked (or waited with)
\* by the thread whose lock() acquired it.  The caps keep the counters the
\* ledger lets grow without bound inside the model's bounds.
CallMutexCreate(t, kinds, max) ==
    \E blocking \in kinds :
        /\ FirstNone(mutex_list) # -1 \/ VecLen(mutex_list) < max
        /\ sys_mutex_create(t, blocking)

CallMutexLock(t) ==
    \E m \in DOMAIN mutex_list :
        /\ mutex_need[t][m] < MaxNeed
        /\ sys_mutex_lock(t, m)

CallMutexUnlock(t) ==
    \E m \in DOMAIN mutex_list :
        /\ mutex_holder[m] = t
        /\ mutex_allocation[t][m] < USIZE_MOD - MaxUnderflow
        /\ sys_mutex_unlock(t, m)

CallSemaphoreCreate(t, max) ==
    \E n \in 0..MaxCount :
        /\ FirstNone(semaphore_list) # -1 \/ VecLen(semaphore_list) < max
        /\ sys_semaphore_create(t, n)

CallSemaphoreUp(t) ==
    \E s \in DOMAIN semaphore_list :
        /\ semaphore_available[s] <= MaxCount
        /\ semaphore_allocation[t][s] < USIZE_MOD - MaxUnderflow
        /\ sys_semaphore_up(t, s)

CallSemaphoreDown(t) ==
    \E s \in DOMAIN semaphore_list :
        /\ semaphore_need[t][s] < MaxNeed
        /\ sys_semaphore_down(t, s)

CallCondvarCreate(t, max) ==
    /\ FirstNone(condvar_list) # -1 \/ VecLen(condvar_list) < max
    /\ sys_condvar_create(t)

CallCondvarSignal(t) ==
    \E c \in DOMAIN condvar_list : sys_condvar_signal(t, c)

CallCondvarWait(t) ==
    \E c \in DOMAIN condvar_list, m \in DOMAIN mutex_list :
        /\ mutex_holder[m] = t
        /\ sys_condvar_wait(t, c, m)

CallEnableDeadlockDetect(t) ==
    \E v \in 0..2 : sys_enable_deadlock_detect(t, v)

NO_VERDICT == [safe |-> FALSE, panic |-> FALSE, ovf |-> FALSE, run |-> FALSE]

\* A new thread: stride 0 and the default priority.
DEFAULT_PRIORITY == 16

NewStrides(n) ==
    /\ task_stride = [t \in 0..(n - 1) |-> 0]
    /\ task_priority = [t \in 0..(n - 1) |-> DEFAULT_PRIORITY]
    /\ task_dispatches = [t \in 0..(n - 1) |-> 0]

\* No kernel path is followed event by event.
NoPath ==
    /\ kpath = <<>>
    /\ on_cpu = NO_TID
    /\ borrowed = {}

\* A process without children.
NoChildren ==
    /\ children = <<>>
    /\ exit_code_out = NO_RET

NoScript(n) ==
    /\ script = [t \in 0..(n - 1) |-> <<>>]
    /\ lock_rets = [t \in 0..(n - 1) |-> <<>>]
    /\ verdict = NO_VERDICT
    /\ NewStrides(n)
    /\ NoPath
    /\ NoChildren

\* The whole interface, threads calling freely.
Init ==
    /\ overflow_checks \in BOOLEAN
    /\ InitProcess(NumThreads, FALSE)
    /\ NoScript(NumThreads)

Next ==
    \/ run_tasks /\ UNCHANGED <<script, lock_rets, verdict, stride_state, access_state, family_state>>
    \/ \E t \in Tids :
        /\ \/ CallMutexCreate(t, BOOLEAN, MaxMutex)
           \/ CallMutexLock(t)
           \/ CallMutexUnlock(t)
           \/ CallSemaphoreCreate(t, MaxSem)
           \/ CallSemaphoreUp(t)
           \/ CallSemaphoreDown(t)
           \/ CallCondvarCreate(t, MaxCondvar)
           \/ CallCondvarSignal(t)
           \/ CallCondvarWait(t)
           \/ CallEnableDeadlockDetect(t)
           \/ resume_blocked(t)
           \/ MutexSpin_lock_poll(t)
           \/ suspend_current_and_run_next(t)
        /\ UNCHANGED <<script, lock_rets, verdict, stride_state, access_state, family_state>>

Spec == Init /\ [][Next]_vars

\* Mutexes only: mutex_create, mutex_lock, mutex_unlock.
InitMutex ==
    /\ overflow_checks \in BOOLEAN
    /\ InitProcess(ClassThreads, FALSE)
    /\ NoScript(ClassThreads)

NextMutex ==
    \/ run_tasks /\ UNCHANGED <<script, lock_rets, verdict, stride_state, access_state, family_state>>
    \/ \E t \in Tids :
        /\ \/ CallMutexCreate(t, BOOLEAN, MaxMutex)
           \/ CallMutexLock(t)
           \/ CallMutexUnlock(t)
           \/ CallEnableDeadlockDetect(t)
           \/ resume_blocked(t)
           \/ MutexSpin_lock_poll(t)
           \/ suspend_current_and_run_next(t)
        /\ UNCHANGED <<script, lock_rets, verdict, stride_state, access_state, family_state>>

SpecMutex == InitMutex /\ [][NextMutex]_vars

\* Semaphores only: semaphore_create, semaphore_up, semaphore_down.
NextSem ==
    \/ run_tasks /\ UNCHANGED <<script, lock_rets, verdict, stride_state, access_state, family_state>>
    \/ \E t \in Tids :
        /\ \/ CallSemaphoreCreate(t, MaxSem)
           \/ CallSemaphoreUp(t)
           \/ CallSemaphoreDown(t)
           \/ CallEnableDeadlockDetect(t)
           \/ resume_blocked(t)
           \/ suspend_current_and_run_next(t)
        /\ UNCHANGED <<script, lock_rets, verdict, stride_state, access_state, family_state>>

SpecSem == InitMutex /\ [][NextSem]_vars

\* ------------------------------------------------------------------ properties
\* C1: at every quiescent point, for every mutex id r (blocking or spinning),
\* mutex_available[r] plus the sum over the threads of mutex_allocation[t][r]
\* is 1.
C1_MutexMatrixInvariant ==
    ~panicked =>
        \A r \in DOMAIN mutex_list :
            mutex_available[r] + SumOver(Tids, mutex_allocation, r) = 1

\* C2: at every quiescent point, for every semaphore id r,
\* semaphore_available[r] plus the sum over the threads of
\* semaphore_allocation[t][r] is the count the semaphore was created with.
C2_SemaphoreMatrixInvariant ==
    ~panicked =>
        \A r \in DOMAIN semaphore_list :
            semaphore_available[r] + SumOver(Tids, semaphore_allocation, r) = sem_total[r]

\* Blocking mutexes and condition variables.
NextCondvar ==
    \/ run_tasks /\ UNCHANGED <<script, lock_rets, verdict, stride_state, access_state, family_state>>
    \/ \E t \in Tids :
        /\ \/ CallMutexCreate(t, {TRUE}, MaxMutex)
           \/ CallMutexLock(t)
           \/ CallMutexUnlock(t)
           \/ CallCondvarCreate(t, MaxCondvar)
           \/ CallCondvarSignal(t)
           \/ CallCondvarWait(t)
           \/ resume_blocked(t)
           \/ suspend_current_and_run_next(t)
        /\ UNCHANGED <<script, lock_rets, verdict, stride_state, access_state, family_state>>

SpecCondvar == InitMutex /\ [][NextCondvar]_vars

\* C3: for a blocking mutex m, no two distinct threads are both recorded with
\* mutex_allocation[t][m] = 1.
C3_LedgerMutualExclusion ==
    ~panicked =>
        \A m \in DOMAIN mutex_list :
            mutex_list[m] = "blocking" =>
                \A t1, t2 \in Tids :
                    t1 # t2 => ~(mutex_allocation[t1][m] = 1 /\ mutex_allocation[t2][m] = 1)

\* Deadlock detection enabled before the first request and never disabled:
\* blocking mutexes and semaphores.
InitDetect ==
    /\ overflow_checks \in BOOLEAN
    /\ InitProcess(NumThreads, TRUE)
    /\ NoScript(NumThreads)

NextDetect ==
    \/ run_tasks /\ UNCHANGED <<script, lock_rets, verdict, stride_state, access_state, family_state>>
    \/ \E t \in Tids :
        /\ \/ CallMutexCreate(t, {TRUE}, DetectSlots)
           \/ CallMutexLock(t)
           \/ CallMutexUnlock(t)
           \/ CallSemaphoreCreate(t, DetectSlots)
           \/ CallSemaphoreUp(t)
           \/ CallSemaphoreDown(t)
           \/ resume_blocked(t)
           \/ suspend_current_and_run_next(t)
        /\ UNCHANGED <<script, lock_rets, verdict, stride_state, access_state, family_state>>

SpecDetect == InitDetect /\ [][NextDetect]_vars

\* Thread t is Blocked in mutex_lock on a mutex held by a thread of S, or in
\* semaphore_down on a semaphore whose units are all held by threads of S.
BlockedWithin(t, S) ==
    /\ task_status[t] = "Blocked"
    /\ \/ /\ pc[t].at = "lock_wake"
          /\ mutex_holder[pc[t].id] \in S
       \/ /\ pc[t].at = "down_wake"
          /\ LET s == pc[t].id
                 holders == {u \in Tids : semaphore_allocation[u][s] \in 1..sem_total[s]}
             IN /\ holders # {}
                /\ holders \subseteq S
                /\ SumOver(holders, semaphore_allocation, s) = sem_total[s]

Deadlocked(S) == S # {} /\ \A t \in S : BlockedWithin(t, S)

\* C4: with deadlock checking enabled, no reachable state has a non-empty set
\* of threads each Blocked on a resource held only by threads of the set.
C4_NoDeadlock ==
    ~panicked => ~(\E S \in SUBSET Tids : Deadlocked(S))

\* ------------------------------------------------------ scripted threads
\* sys_exit: exit_current_and_run_next; the thread is a Zombie and is never
\* dispatched again.
sys_exit(t) ==
    /\ CanCall(t)
    /\ task_status' = [task_status EXCEPT ![t] = "Zombie"]
    /\ current' = NO_TID
    /\ UNCHANGED <<build, is_enable_deadlock_detect, ledger, tables, primitives,
                   ready_queue, pc, ret>>

Op(op, id) == [op |-> op, id |-> id]

\* A thread's program: a sequence of calls.  "yield" is a point where the
\* thread may lose the processor (sys_yield, or a timer interrupt in user
\* code) or go on; "unlock" is made only if the preceding lock of that mutex
\* was granted.
ScriptStep(t) ==
    /\ CanCall(t)
    /\ script[t] # <<>>
    /\ t # 0 => script[0] = <<>>
    /\ script' = [script EXCEPT ![t] = Tail(@)]
    /\ UNCHANGED <<verdict, stride_state, access_state, family_state>>
    /\ LET op == Head(script[t]) IN
       IF op.op = "create"
       THEN sys_mutex_create(t, TRUE) /\ UNCHANGED lock_rets
       ELSE IF op.op = "detect"
       THEN sys_enable_deadlock_detect(t, 1) /\ UNCHANGED lock_rets
       ELSE IF op.op = "lock"
       THEN /\ sys_mutex_lock(t, op.id)
            /\ lock_rets' = [lock_rets EXCEPT ![t] = Append(@, ret'[t])]
       ELSE IF op.op = "unlock"
       THEN /\ IF mutex_holder[op.id] = t
               THEN sys_mutex_unlock(t, op.id)
               ELSE UNCHANGED <<build, is_enable_deadlock_detect, ledger, tables,
                                primitives, sched, ret>>
            /\ UNCHANGED lock_rets
       ELSE IF op.op = "yield"
       THEN /\ \/ suspend_current_and_run_next(t)
               \/ UNCHANGED <<build, is_enable_deadlock_detect, ledger, tables,
                              primitives, sched, ret>>
            /\ UNCHANGED lock_rets
       ELSE sys_exit(t) /\ UNCHANGED lock_rets

\* mutex_lock returns 0 to a thread that blocked in it and was woken.
ScriptResume(t) ==
    /\ resume_blocked(t)
    /\ lock_rets' = [lock_rets EXCEPT ![t] = [k \in 1..Len(@) |-> IF k = Len(@) THEN 0 ELSE @[k]]]
    /\ UNCHANGED <<script, verdict, stride_state, access_state, family_state>>

NextScript ==
    \/ run_tasks /\ UNCHANGED <<script, lock_rets, verdict, stride_state, access_state, family_state>>
    \/ \E t \in Tids : ScriptStep(t)
    \/ \E t \in Tids : ScriptResume(t)

\* The main thread (tid 0) creates two blocking mutexes and turns deadlock
\* detection on; the other threads of the process run after that.
MainScript == <<Op("create", 0), Op("create", 0), Op("detect", 0), Op("exit", 0)>>

IdleScript == <<Op("exit", 0)>>

\* lock a, then lock b, then release both
LockBoth(a, b) ==
    <<Op("yield", 0), Op("lock", a), Op("yield", 0), Op("lock", b), Op("yield", 0),
      Op("unlock", b), Op("yield", 0), Op("unlock", a), Op("exit", 0)>>

\* Threads of the scripted process: the main thread and ScriptThreads - 1 more.
ScriptThreads == 4

\* T1 and T2 are any two distinct threads other than the main thread.
InitScript(first, second) ==
    /\ overflow_checks \in BOOLEAN
    /\ InitProcess(ScriptThreads, FALSE)
    /\ lock_rets = [t \in 0..(ScriptThreads - 1) |-> <<>>]
    /\ verdict = NO_VERDICT
    /\ NewStrides(ScriptThreads)
    /\ NoPath
    /\ NoChildren
    /\ \E t1, t2 \in 1..(ScriptThreads - 1) :
        /\ t1 # t2
        /\ script = [t \in 0..(ScriptThreads - 1) |->
                        IF t = 0 THEN MainScript
                        ELSE IF t = t1 THEN first
                        ELSE IF t = t2 THEN second
                        ELSE IdleScript]

\* Circular acquisition: T1 locks M1 then M2, T2 locks M2 then M1.
InitCircular == InitScript(LockBoth(0, 1), LockBoth(1, 0))

SpecCircular == InitCircular /\ [][NextScript]_vars /\ WF_vars(NextScript)

\* Both threads hold their first mutex and neither has made its second request.
CycleFormed ==
    \E t1, t2 \in Tids :
        /\ t1 # t2
        /\ mutex_list = [m \in 0..1 |-> "blocking"]
        /\ mutex_holder[0] = t1 /\ Len(lock_rets[t1]) = 1
        /\ mutex_holder[1] = t2 /\ Len(lock_rets[t2]) = 1

\* Every thread ran to its exit; one second request was refused, the other
\* returned 0.
OneRefusedBothFinished ==
    /\ \A t \in Tids : script[t] = <<>> /\ task_status[t] = "Zombie"
    /\ \E t1, t2 \in Tids :
        /\ t1 # t2
        /\ lock_rets[t1] = <<0, WOULD_DEADLOCK>>
        /\ lock_rets[t2] = <<0, 0>>

\* C5: circular acquisition with detection enabled: once T1 holds M1 and T2
\* holds M2, exactly one of the two second requests returns the would-deadlock
\* sentinel, the other eventually returns 0, and both threads run to their end
\* (neither stays Blocked forever).
C5_CircularOneRefused == [](CycleFormed => <>OneRefusedBothFinished)

\* Non-circular acquisition: both threads lock M1 then M2.
InitOrdered == InitScript(LockBoth(0, 1), LockBoth(0, 1))

SpecOrdered == InitOrdered /\ [][NextScript]_vars

\* C6: non-circular acquisition with detection enabled: no mutex_lock call
\* returns the would-deadlock sentinel, whatever thread ids the two threads have.
C6_OrderedAllSucceed ==
    \A t \in Tids : \A k \in 1..Len(lock_rets[t]) : lock_rets[t][k] # WOULD_DEADLOCK

\* ------------------------------------------------- the safety check alone
\* Thread rows and mutex slots of the ledgers the check is run on.
BankerThreads == 3
BankerSlots == 3

RECURSIVE SeqOf(_)
\* the elements of a set of tids, in increasing order
SeqOf(S) ==
    IF S = {} THEN <<>>
    ELSE LET t == CHOOSE x \in S : \A y \in S : x <= y IN <<t>> \o SeqOf(S \ {t})

\* A process of T threads and R blocking mutexes at a quiescent point: every
\* mutex is free or held by one thread, a thread waits for at most one mutex,
\* which is a held one, and is then Blocked in its wait queue.
InitBanker ==
    /\ overflow_checks \in BOOLEAN
    /\ \E T \in 1..BankerThreads, R \in 1..BankerSlots :
       \E holder \in [0..(R - 1) -> {NO_TID} \cup 0..(T - 1)] :
       \E waits \in [0..(T - 1) -> {NO_TID} \cup {m \in 0..(R - 1) : holder[m] # NO_TID}] :
        /\ panicked = FALSE
        /\ is_enable_deadlock_detect = TRUE
        /\ mutex_list = [m \in 0..(R - 1) |-> "blocking"]
        /\ mutex_available = [m \in 0..(R - 1) |-> IF holder[m] = NO_TID THEN 1 ELSE 0]
        /\ mutex_allocation = [t \in 0..(T - 1) |->
                                  [m \in 0..(R - 1) |-> IF holder[m] = t THEN 1 ELSE 0]]
        /\ mutex_need = [t \in 0..(T - 1) |->
                            [m \in 0..(R - 1) |-> IF waits[t] = m THEN 1 ELSE 0]]
        /\ mutex_locked = [m \in 0..(R - 1) |-> holder[m] # NO_TID]
        /\ mutex_wait_queue = [m \in 0..(R - 1) |-> SeqOf({t \in 0..(T - 1) : waits[t] = m})]
        /\ mutex_holder = holder
        /\ semaphore_list = EmptyVec
        /\ semaphore_available = EmptyVec
        /\ semaphore_allocation = [t \in 0..(T - 1) |-> EmptyVec]
        /\ semaphore_need = [t \in 0..(T - 1) |-> EmptyVec]
        /\ sem_count = EmptyVec
        /\ sem_wait_queue = EmptyVec
        /\ sem_total = EmptyVec
        /\ condvar_list = EmptyVec
        /\ condvar_wait_queue = EmptyVec
        /\ task_status = [t \in 0..(T - 1) |-> IF waits[t] = NO_TID THEN "Ready" ELSE "Blocked"]
        /\ current = NO_TID
        /\ ready_queue = SeqOf({t \in 0..(T - 1) : waits[t] = NO_TID})
        /\ pc = [t \in 0..(T - 1) |-> IF waits[t] = NO_TID THEN [at |-> "user", id |-> 0]
                                       ELSE [at |-> "lock_wake", id |-> waits[t]]]
        /\ ret = [t \in 0..(T - 1) |-> IF waits[t] = NO_TID THEN 0 ELSE NO_RET]
        /\ NoScript(T)

\* The deadlock detection block of sys_mutex_lock, for a request of the
\* running thread t for the held mutex m: the need entry is incremented and the
\* check is run with the handler's tnum and mnum.
DeadlockDetectBlock(t, m) ==
    /\ CanCall(t)
    /\ ~verdict.run
    /\ m \in DOMAIN mutex_list
    /\ mutex_available[m] = 0
    /\ is_enable_deadlock_detect
    /\ LET tnum == ThreadCount(mutex_list)
           mnum == VecLen(mutex_available)
           need1 == NeedInc(mutex_need, t, m)
           chk == SafetyCheck(mutex_available, mutex_allocation, need1, tnum, mnum)
       IN /\ mutex_need' = need1
          /\ verdict' = [safe |-> chk.safe, panic |-> chk.panic, ovf |-> chk.ovf, run |-> TRUE]
    /\ UNCHANGED <<build, is_enable_deadlock_detect, tables, primitives, sched, ret,
                   mutex_available, mutex_allocation,
                   semaphore_available, semaphore_allocation, semaphore_need,
                   script, lock_rets, stride_state, access_state, family_state>>

NextBanker ==
    \/ run_tasks /\ UNCHANGED <<script, lock_rets, verdict, stride_state, access_state, family_state>>
    \/ \E t \in Tids : \E m \in DOMAIN mutex_list : DeadlockDetectBlock(t, m)

SpecBanker == InitBanker /\ [][NextBanker]_vars

\* The Banker's algorithm over all thread rows: finish any unfinished thread
\* whose need row fits in work, adding its allocation row, until none fits.
RECURSIVE BankerFinished(_, _, _, _)
BankerFinished(work, done, allocation, need) ==
    LET fits == {t \in DOMAIN allocation \ done :
                    \A r \in DOMAIN work : need[t][r] <= work[r]}
    IN  IF fits = {} THEN done
        ELSE LET t == CHOOSE x \in fits : TRUE
             IN BankerFinished([r \in DOMAIN work |-> work[r] + allocation[t][r]],
                               done \cup {t}, allocation, need)

BankerSafe(available, allocation, need) ==
    BankerFinished(available, {}, allocation, need) = DOMAIN allocation

\* C7: the safety check run inside mutex_lock reports safe exactly when the
\* Banker's algorithm over all thread rows of the ledger finishes every
\* thread, for any number of threads T and of resources R.
C7_SafetyCheckIsBanker ==
    verdict.run =>
        /\ ~verdict.panic
        /\ verdict.safe = BankerSafe(mutex_available, mutex_allocation, mutex_need)

\* A step is thread t's mutex_lock or semaphore_down returning -0xdead.
ReturnsWouldDeadlock(t) ==
    /\ \/ \E m \in DOMAIN mutex_list : sys_mutex_lock(t, m)
       \/ \E s \in DOMAIN semaphore_list : sys_semaphore_down(t, s)
    /\ ret'[t] = WOULD_DEADLOCK

\* C8: whenever mutex_lock or semaphore_down returns the would-deadlock
\* sentinel, available, allocation and need, the primitives' flags, counts and
\* wait queues are as before the call, and the caller is still the running
\* thread, not Blocked.
C8_WouldDeadlockRollback ==
    [][\A t \in Tids :
          ReturnsWouldDeadlock(t) =>
              /\ UNCHANGED <<ledger, primitives, sched>>
              /\ task_status'[t] = "Running"
              /\ current' = t]_vars

\* A thread whose request was just refused: the sentinel is its return value,
\* the resource it asked for has no unit available, and it is still running.
C8_Refused ==
    \E t \in Tids :
        /\ ret[t] = WOULD_DEADLOCK
        /\ current = t
        /\ task_status[t] = "Running"
        /\ \/ \E m \in DOMAIN mutex_list : mutex_available[m] = 0 /\ mutex_need[t][m] = 0
           \/ \E s \in DOMAIN semaphore_list : semaphore_available[s] = 0 /\ semaphore_need[t][s] = 0

\* What a release that finds waiter w at the head of the wait queue must do
\* to the ledger rows of the releaser t and of w, and to w itself.
WakeShift(t, w, r, allocation, need) ==
    /\ ~panicked'
    /\ need'[w][r] = need[w][r] - 1
    /\ allocation'[w][r] = allocation[w][r] + 1
    /\ w # t => allocation'[t][r] = allocation[t][r] - 1
    /\ task_status'[w] = "Ready"
    /\ \E k \in 1..Len(ready_queue') : ready_queue'[k] = w

\* C9: a mutex_unlock / semaphore_up on a resource with a non-empty wait queue
\* dequeues the head waiter w and re-admits it as Ready, and in the same step
\* need[w][r] decreases by one, allocation[w][r] increases by one and the
\* releaser's allocation[tid][r] decreases by one, so that for a mutex the
\* ledger never records both the old and the new owner.
C9_WakeLedgerAtomicity ==
    [][\A t \in Tids :
          /\ \A m \in DOMAIN mutex_list :
                (sys_mutex_unlock(t, m) /\ mutex_list[m] = "blocking" /\ mutex_wait_queue[m] # <<>>) =>
                    /\ mutex_wait_queue'[m] = Tail(mutex_wait_queue[m])
                    /\ mutex_holder'[m] = Head(mutex_wait_queue[m])
                    /\ WakeShift(t, Head(mutex_wait_queue[m]), m, mutex_allocation, mutex_need)
                    /\ Head(mutex_wait_queue[m]) # t => mutex_allocation'[t][m] = 0
          /\ \A s \in DOMAIN semaphore_list :
                (sys_semaphore_up(t, s) /\ sem_wait_queue[s] # <<>>) =>
                    /\ sem_wait_queue'[s] = Tail(sem_wait_queue[s])
                    /\ WakeShift(t, Head(sem_wait_queue[s]), s, semaphore_allocation, semaphore_need)]_vars

\* C10: whenever available[rid] > 0 at the time of mutex_lock /
\* semaphore_down, the call returns 0 with the caller still running (never
\* Blocked, never waiting on the primitive), available[rid] is decremented,
\* allocation[tid][rid] incremented (in usize arithmetic) and need unchanged.
C10_ImmediateGrant ==
    [][\A t \in Tids :
          /\ \A m \in DOMAIN mutex_list :
                (sys_mutex_lock(t, m) /\ mutex_available[m] > 0) =>
                    /\ ~panicked'
                    /\ ret'[t] = 0
                    /\ current' = t /\ task_status'[t] = "Running" /\ pc'[t].at = "user"
                    /\ mutex_available'[m] = SubU(mutex_available[m], 1)
                    /\ mutex_allocation'[t][m] = AddU(mutex_allocation[t][m], 1)
                    /\ mutex_need' = mutex_need
          /\ \A s \in DOMAIN semaphore_list :
                (sys_semaphore_down(t, s) /\ semaphore_available[s] > 0) =>
                    /\ ~panicked'
                    /\ ret'[t] = 0
                    /\ current' = t /\ task_status'[t] = "Running" /\ pc'[t].at = "user"
                    /\ semaphore_available'[s] = SubU(semaphore_available[s], 1)
                    /\ semaphore_allocation'[t][s] = AddU(semaphore_allocation[t][s], 1)
                    /\ semaphore_need' = semaphore_need]_vars

\* C11: mutex_unlock by the thread that acquired the mutex and semaphore_up by
\* any thread on a valid id complete and return 0 without a panic, and
\* subtract only from entries that are at least one: the releaser's
\* allocation[tid][r] and, when a waiter is woken, that waiter's need[w][r].
C11_ReleaseNoUnderflow ==
    [][\A t \in Tids :
          /\ \A m \in DOMAIN mutex_list :
                (sys_mutex_unlock(t, m) /\ mutex_holder[m] = t) =>
                    /\ ~panicked'
                    /\ ret'[t] = 0
                    /\ mutex_allocation[t][m] >= 1
                    /\ mutex_get_waking_tid(m) # NO_TID =>
                           mutex_need[mutex_get_waking_tid(m)][m] >= 1
          /\ \A s \in DOMAIN semaphore_list :
                sys_semaphore_up(t, s) =>
                    /\ ~panicked'
                    /\ ret'[t] = 0
                    /\ semaphore_allocation[t][s] >= 1
                    /\ sem_get_waking_tid(s) # NO_TID =>
                           semaphore_need[sem_get_waking_tid(s)][s] >= 1]_vars

\* ------------------------------------------------- creation and slot reuse
\* Removal of a resource: its slot of the table becomes empty and is eligible
\* for reuse.  The table keeps its length, and so do the ledger matrices, which
\* are rectangular over the table's id space.  Only an idle resource is
\* removed: not held, not waited for.
remove_mutex(t, m) ==
    /\ CanCall(t)
    /\ m \in DOMAIN mutex_list
    /\ mutex_list[m] # "none"
    /\ ~mutex_locked[m]
    /\ mutex_wait_queue[m] = <<>>
    /\ \A u \in Tids : m \in DOMAIN mutex_need[u] /\ mutex_need[u][m] = 0
    /\ mutex_list' = [mutex_list EXCEPT ![m] = "none"]
    /\ Return(t, 0)
    /\ UNCHANGED <<build, is_enable_deadlock_detect, ledger, primitives,
                   semaphore_list, condvar_list, sem_total>>

remove_semaphore(t, s) ==
    /\ CanCall(t)
    /\ s \in DOMAIN semaphore_list
    /\ semaphore_list[s] # "none"
    /\ sem_wait_queue[s] = <<>>
    /\ sem_count[s] = sem_total[s]
    /\ semaphore_list' = [semaphore_list EXCEPT ![s] = "none"]
    /\ Return(t, 0)
    /\ UNCHANGED <<build, is_enable_deadlock_detect, ledger, primitives,
                   mutex_list, condvar_list, sem_total>>

remove_condvar(t, c) ==
    /\ CanCall(t)
    /\ c \in DOMAIN condvar_list
    /\ condvar_list[c] # "none"
    /\ condvar_wait_queue[c] = <<>>
    /\ condvar_list' = [condvar_list EXCEPT ![c] = "none"]
    /\ Return(t, 0)
    /\ UNCHANGED <<build, is_enable_deadlock_detect, ledger, primitives,
                   mutex_list, semaphore_list, sem_total>>

\* Slots a table may grow to, and threads of the process, where resources are
\* created and removed.
CreateSlots == 2
CreateThreads == 2

\* A resource is removed only while the class's ledger is as long as its table.
CallRemoveMutex(t) ==
    \E m \in DOMAIN mutex_list :
        /\ VecLen(mutex_available) = VecLen(mutex_list)
        /\ remove_mutex(t, m)

CallRemoveSemaphore(t) ==
    \E s \in DOMAIN semaphore_list :
        /\ VecLen(semaphore_available) = VecLen(semaphore_list)
        /\ remove_semaphore(t, s)

CallRemoveCondvar(t) ==
    \E c \in DOMAIN condvar_list : remove_condvar(t, c)

InitCreate ==
    /\ overflow_checks \in BOOLEAN
    /\ InitProcess(CreateThreads, FALSE)
    /\ NoScript(CreateThreads)

\* The three tables are independent of one another: a creation reads and
\* writes the table and the ledger of its own class only.  The process creates
\* resources of one class, whichever it started with.
OnlyMutexes == semaphore_list = EmptyVec /\ condvar_list = EmptyVec
OnlySemaphores == mutex_list = EmptyVec /\ condvar_list = EmptyVec
OnlyCondvars == mutex_list = EmptyVec /\ semaphore_list = EmptyVec

NextCreate ==
    \/ run_tasks /\ UNCHANGED <<script, lock_rets, verdict, stride_state, access_state, family_state>>
    \/ \E t \in Tids :
        /\ \/ OnlyMutexes /\ CallMutexCreate(t, BOOLEAN, CreateSlots)
           \/ OnlySemaphores /\ CallSemaphoreCreate(t, CreateSlots)
           \/ OnlyCondvars /\ CallCondvarCreate(t, CreateSlots)
           \/ CallRemoveMutex(t)
           \/ CallRemoveSemaphore(t)
           \/ CallRemoveCondvar(t)
           \/ suspend_current_and_run_next(t)
        /\ UNCHANGED <<script, lock_rets, verdict, stride_state, access_state, family_state>>

SpecCreate == InitCreate /\ [][NextCreate]_vars

\* After a creation that returned id: the ledger of the class is rectangular
\* over the new table, the created id's entries are initialised to total, 0
\* and 0, and every other id keeps its entries at its own index.
CreatedRectangular(id, total, list1, avail, avail1, alloc, alloc1, need, need1) ==
    /\ VecLen(avail1) = VecLen(list1)
    /\ \A u \in Tids : VecLen(alloc1[u]) = VecLen(list1) /\ VecLen(need1[u]) = VecLen(list1)
    /\ avail1[id] = total
    /\ \A u \in Tids : alloc1[u][id] = 0 /\ need1[u][id] = 0
    /\ \A r \in DOMAIN avail \ {id} :
          /\ avail1[r] = avail[r]
          /\ \A u \in Tids : alloc1[u][r] = alloc[u][r] /\ need1[u][r] = need[u][r]

\* C12: after any mutex_create / semaphore_create, including one that reuses
\* an empty slot, len(available) is the table length R, every allocation and
\* need row has length R, the created id's entries are initialised and the
\* entries of all other ids are unchanged at their own index.
C12_LedgerRectangular ==
    [][\A t \in Tids :
          /\ \A blocking \in BOOLEAN :
                sys_mutex_create(t, blocking) =>
                    CreatedRectangular(ret'[t], 1, mutex_list',
                                       mutex_available, mutex_available',
                                       mutex_allocation, mutex_allocation',
                                       mutex_need, mutex_need')
          /\ \A n \in 0..MaxCount :
                sys_semaphore_create(t, n) =>
                    CreatedRectangular(ret'[t], n, semaphore_list',
                                       semaphore_available, semaphore_available',
                                       semaphore_allocation, semaphore_allocation',
                                       semaphore_need, semaphore_need')]_vars

\* A creation on table list returned id and left table list1: id is the
\* lowest-indexed empty slot of list and the table kept its length, or list had
\* no empty slot, id is its old length and the table grew by one; the slot id
\* is occupied and every other slot is as before.
CreatedSlot(id, list, list1) ==
    /\ IF \E i \in DOMAIN list : list[i] = "none"
       THEN /\ id \in DOMAIN list
            /\ list[id] = "none"
            /\ \A k \in DOMAIN list : k < id => list[k] # "none"
            /\ VecLen(list1) = VecLen(list)
       ELSE /\ id = VecLen(list)
            /\ VecLen(list1) = VecLen(list) + 1
    /\ list1[id] # "none"
    /\ \A r \in DOMAIN list \ {id} : list1[r] = list[r]

\* C13: mutex_create, semaphore_create and condvar_create return the
\* lowest-indexed empty slot of the class's table if there is one, and the old
\* table length otherwise; the table does not grow on reuse.
C13_SlotReuse ==
    [][\A t \in Tids :
          /\ \A blocking \in BOOLEAN :
                sys_mutex_create(t, blocking) => CreatedSlot(ret'[t], mutex_list, mutex_list')
          /\ \A n \in 0..MaxCount :
                sys_semaphore_create(t, n) =>
                    CreatedSlot(ret'[t], semaphore_list, semaphore_list')
          /\ sys_condvar_create(t) => CreatedSlot(ret'[t], condvar_list, condvar_list')]_vars

\* A mutex was created in a slot that a removal had emptied: the table is
\* full again, the running thread's return value names an occupied slot, and
\* the ledger carries the column the reuse inserted.
C13_Reused ==
    \E t \in Tids :
        /\ current = t
        /\ ret[t] \in DOMAIN mutex_list
        /\ \A m \in DOMAIN mutex_list : mutex_list[m] # "none"
        /\ VecLen(mutex_list) = CreateSlots
        /\ VecLen(mutex_available) = VecLen(mutex_list) + 1

\* ------------------------------------------------------- stride scheduling
\* pass = BIG_STRIDE / priority
BIG_STRIDE == 32768

Pass(t) == BIG_STRIDE \div task_priority[t]

\* Priorities the threads of the scheduling specifications run with.
MinPriority == 2
MaxPriority == 4

Priorities == {MinPriority, MaxPriority}

\* update_stride: the stride advances by the pass, in usize arithmetic
update_stride(stride, t) == [stride EXCEPT ![t] = AddU(@, Pass(t))]

\* The scan of fetch() from queue position k on (positions count from 1):
\* if task_stride < min_stride { res = idx; min_stride = task_stride }
RECURSIVE FetchScan(_, _, _, _)
FetchScan(queue, k, res, min_stride) ==
    IF k > Len(queue) THEN res
    ELSE IF task_stride[queue[k]] < min_stride
    THEN FetchScan(queue, k + 1, k, task_stride[queue[k]])
    ELSE FetchScan(queue, k + 1, res, min_stride)

\* Last come, first served: the unit enqueued last, whatever the strides.
fetch_newest(queue) == IF queue = <<>> THEN 1 ELSE Len(queue)

\* First come, first served: the head of the queue, whatever the strides.
fetch_fifo(queue) == 1

\* TaskManager::fetch: the position fetch() settles on, with
\* min_stride = 0xffff_ffff_ffff_ffff and res = 0 (the first position) to start
fetch(queue) == FetchScan(queue, 1, 1, USIZE_MOD - 1)

\* The unit is dispatched without being marked Running.
MarkRunning_skip(status, t) == status

\* task_inner.task_status = TaskStatus::Running
MarkRunning(status, t) == [status EXCEPT ![t] = "Running"]

\* The stride of the queue's head advances, whichever unit fetch() settled on.
fetch_update_stride_head(stride, queue, res) == update_stride(stride, queue[1])

\* self.ready_queue[res].inner_exclusive_access().update_stride()
fetch_update_stride(stride, queue, res) == update_stride(stride, queue[res])

\* run_tasks with the scheduler's fetch(): one turn of the idle loop.  fetch()
\* indexes ready_queue[res] whether or not the queue has an element.
run_tasks_fetch ==
    /\ ~panicked
    /\ current = NO_TID
    /\ IF ready_queue = <<>>
       THEN /\ panicked' = TRUE
            /\ UNCHANGED <<overflow_checks, sched, stride_state>>
       ELSE LET res == fetch(ready_queue)
                t == ready_queue[res]
            IN /\ task_stride' = fetch_update_stride(task_stride, ready_queue, res)
               /\ task_dispatches' = [task_dispatches EXCEPT ![t] = @ + 1]
               /\ ready_queue' = RemoveAt(ready_queue, res)
               /\ task_status' = MarkRunning(task_status, t)
               /\ current' = t
               /\ UNCHANGED <<build, task_priority, pc>>
    /\ UNCHANGED <<is_enable_deadlock_detect, ledger, tables, primitives, ret,
                   script, lock_rets, verdict, access_state, family_state>>

\* sys_sleep: the caller is put on the timer queue and blocks.
sys_sleep(t) ==
    /\ CanCall(t)
    /\ BlockCurrent(t, "sleep_wake", 0)
    /\ UNCHANGED <<build, is_enable_deadlock_detect, ledger, tables, primitives>>

\* The timer queue wakes a sleeping thread at its deadline: it is Ready again.
timer_wake(t) ==
    /\ ~panicked
    /\ task_status[t] = "Blocked"
    /\ pc[t].at = "sleep_wake"
    /\ task_status' = [task_status EXCEPT ![t] = "Ready"]
    /\ ready_queue' = add_task(ready_queue, t)
    /\ pc' = [pc EXCEPT ![t] = [at |-> "sleep_return", id |-> 0]]
    /\ UNCHANGED <<build, is_enable_deadlock_detect, ledger, tables, primitives,
                   current, ret>>

\* sys_sleep returns 0 to the woken thread once it is dispatched.
sys_sleep_return(t) ==
    /\ ~panicked
    /\ current = t
    /\ pc[t].at = "sleep_return"
    /\ pc' = [pc EXCEPT ![t] = [at |-> "user", id |-> 0]]
    /\ ret' = [ret EXCEPT ![t] = 0]
    /\ UNCHANGED <<build, is_enable_deadlock_detect, ledger, tables, primitives,
                   task_status, current, ready_queue>>

\* Threads of the scheduling specifications.
SchedThreads == 3

\* A thread gives up the processor to come back (yield, sleep) only while its
\* next dispatch keeps its stride below the counter's maximum.
MayReturn(t) == task_stride[t] + Pass(t) < USIZE_MOD

\* Dispatches after which a thread of the scheduling specification only exits.
MaxDispatches == 3

MayComeBack(t) == MayReturn(t) /\ task_dispatches[t] < MaxDispatches

\* The threads of the process, Ready, with stride 0 and priorities set by
\* earlier set_priority calls.
InitSched ==
    /\ overflow_checks \in BOOLEAN
    /\ InitProcess(SchedThreads, FALSE)
    /\ script = [t \in 0..(SchedThreads - 1) |-> <<>>]
    /\ lock_rets = [t \in 0..(SchedThreads - 1) |-> <<>>]
    /\ verdict = NO_VERDICT
    /\ NoPath
    /\ NoChildren
    /\ task_stride = [t \in 0..(SchedThreads - 1) |-> 0]
    /\ task_priority \in [0..(SchedThreads - 1) -> Priorities]
    /\ task_dispatches = [t \in 0..(SchedThreads - 1) |-> 0]

NextSched ==
    \/ run_tasks_fetch
    \/ \E t \in Tids :
        /\ \/ MayComeBack(t) /\ suspend_current_and_run_next(t)
           \/ MayComeBack(t) /\ sys_sleep(t)
           \/ timer_wake(t)
           \/ sys_sleep_return(t)
           \/ sys_exit(t)
        /\ UNCHANGED <<script, lock_rets, verdict, stride_state, access_state, family_state>>

SpecSched == InitSched /\ [][NextSched]_vars

\* C14: fetch() on a non-empty ready queue removes and returns the unit whose
\* stride is minimal among the queued units, the earliest enqueued among those
\* of minimal stride; every other unit stays queued in its previous order.
C14_FetchMinStride ==
    [][(run_tasks_fetch /\ ready_queue # <<>>) =>
          \E k \in 1..Len(ready_queue) :
              /\ current' = ready_queue[k]
              /\ \A j \in 1..Len(ready_queue) :
                    task_stride[ready_queue[k]] <= task_stride[ready_queue[j]]
              /\ \A j \in 1..(k - 1) :
                    task_stride[ready_queue[k]] < task_stride[ready_queue[j]]
              /\ ready_queue' = SubSeq(ready_queue, 1, k - 1)
                                    \o SubSeq(ready_queue, k + 1, Len(ready_queue))]_vars

\* fetch() has just returned a woken sleeper, not yet resumed, of smaller stride
\* than the two units that yielded and are still queued.
C14_FetchedLowerStride ==
    \E t \in Tids :
        /\ current = t
        /\ pc[t].at = "sleep_return"
        /\ Len(ready_queue) = 2
        /\ \A j \in 1..2 :
              /\ pc[ready_queue[j]].at = "user"
              /\ task_stride[t] - Pass(t) < task_stride[ready_queue[j]]
        /\ task_stride[ready_queue[1]] # task_stride[ready_queue[2]]

\* C15: fetch() on an empty ready queue returns nothing and does not crash:
\* the queue stays empty, no unit becomes current and the idle loop goes on.
C15_FetchEmptyIdles ==
    [][(run_tasks_fetch /\ ready_queue = <<>>) =>
          /\ ~panicked'
          /\ ready_queue' = <<>>
          /\ current' = NO_TID]_vars

\* ------------------------------------------------------- two units contending
StrideThreads == 2

\* Two Ready units of any priorities from MinPriority to MaxPriority.
InitStride ==
    /\ overflow_checks \in BOOLEAN
    /\ InitProcess(StrideThreads, FALSE)
    /\ script = [t \in 0..(StrideThreads - 1) |-> <<>>]
    /\ lock_rets = [t \in 0..(StrideThreads - 1) |-> <<>>]
    /\ verdict = NO_VERDICT
    /\ NoPath
    /\ NoChildren
    /\ task_stride = [t \in 0..(StrideThreads - 1) |-> 0]
    /\ task_priority \in [0..(StrideThreads - 1) -> MinPriority..MaxPriority]
    /\ task_dispatches = [t \in 0..(StrideThreads - 1) |-> 0]

\* Each unit runs and yields, re-enqueued after every dispatch, for as long as
\* no stride wraps around.
NextStride ==
    \/ run_tasks_fetch
    \/ \E t \in Tids :
        /\ \A u \in Tids : MayReturn(u)
        /\ suspend_current_and_run_next(t)
        /\ UNCHANGED <<script, lock_rets, verdict, stride_state, access_state, family_state>>

SpecStride == InitStride /\ [][NextStride]_vars

MaxOf(a, b) == IF a >= b THEN a ELSE b

\* C16: two Ready units of priorities p1, p2 >= 2 that keep contending are
\* dispatched in proportion p1 : p2: before any wraparound, the products
\* n1 * pass1 and n2 * pass2 of dispatch count and pass never differ by more
\* than the larger pass, and each unit's stride is its count times its pass.
C16_StrideFairness ==
    \A t, u \in Tids :
        /\ task_priority[t] >= 2
        /\ task_stride[t] = task_dispatches[t] * Pass(t)
        /\ task_dispatches[t] * Pass(t) - task_dispatches[u] * Pass(u)
              <= MaxOf(Pass(t), Pass(u))

\* The unit of higher priority has been dispatched more often than the other,
\* which has itself been dispatched several times.
C16_SharesDiffer ==
    \E t, u \in Tids :
        /\ task_priority[t] > task_priority[u]
        /\ task_dispatches[u] >= 2
        /\ task_dispatches[t] >= task_dispatches[u] + 2

InQueue(t) == \E k \in 1..Len(ready_queue) : ready_queue[k] = t

\* C17: at most one unit is Running; it is the unit the processor holds as
\* current and it is not in the ready queue; the unit run_tasks installs as
\* current has been marked Running.
C17_SingleRunning ==
    /\ Cardinality({t \in Tids : task_status[t] = "Running"}) <= 1
    /\ \A t \in Tids :
          task_status[t] = "Running" => (current = t /\ ~InQueue(t))
    /\ current # NO_TID => task_status[current] = "Running"

\* A unit dispatched for the second time runs while the other two are queued.
C17_RunningAgain ==
    \E t \in Tids :
        /\ current = t
        /\ task_status[t] = "Running"
        /\ task_dispatches[t] >= 2
        /\ Len(ready_queue) = 2
        /\ \A k \in 1..2 : task_status[ready_queue[k]] = "Ready"

\* ------------------------------------------------ exclusive access and switches
\* The kernel code as the events that matter to UPSafeCell: exclusive_access()
\* of a cell, the drop of the guard (explicit, or at the end of the scope that
\* holds it), a call that may block the caller, and __switch.
IDLE == NO_TID

PROCESSOR == <<"PROCESSOR", 0>>

TASK_MANAGER == <<"TASK_MANAGER", 0>>

TIMERS == <<"TIMERS", 0>>

ProcessInner == <<"process.inner", 0>>

TaskInner(t) == <<"task.inner", t>>

Borrow(cell) == [op |-> "borrow", cell |-> cell]

Drop(cell) == [op |-> "drop", cell |-> cell]

SwitchTo(flow) == [op |-> "switch", cell |-> <<"flow", flow>>]

\* mutex.lock(), sem.down(), condvar.wait(mutex): the caller may be blocked
MayBlock == [op |-> "may_block", cell |-> <<"primitive", 0>>]

\* PROCESSOR.exclusive_access().current(): the guard is a temporary
current_task_path == <<Borrow(PROCESSOR), Drop(PROCESSOR)>>

\* PROCESSOR.exclusive_access().take_current()
take_current_task_path == <<Borrow(PROCESSOR), Drop(PROCESSOR)>>

\* TASK_MANAGER.exclusive_access().add(task)
add_task_path == <<Borrow(TASK_MANAGER), Drop(TASK_MANAGER)>>

\* TASK_MANAGER.exclusive_access().fetch(): update_stride borrows the inner of
\* the unit it picked
fetch_task_path(t) == <<Borrow(TASK_MANAGER), Borrow(TaskInner(t)), Drop(TaskInner(t)), Drop(TASK_MANAGER)>>

\* schedule: processor borrowed for the idle context pointer, dropped, __switch
schedule_path == <<Borrow(PROCESSOR), Drop(PROCESSOR), SwitchTo(IDLE)>>

\* One turn of run_tasks that finds unit t: drop(task_inner), then
\* drop(processor), then __switch
run_tasks_path(t) == <<Borrow(PROCESSOR)>> \o fetch_task_path(t) \o <<Borrow(TaskInner(t)), Drop(TaskInner(t)), Drop(PROCESSOR), SwitchTo(t)>>

\* sys_gettid reads the tid out of the current task's inner.
sys_gettid_path(t) == current_task_path \o <<Borrow(TaskInner(t)), Drop(TaskInner(t))>>

\* block_current_and_run_next: take the current task, mark it Blocked, schedule.
block_current_and_run_next_path(t) == take_current_task_path \o <<Borrow(TaskInner(t)), Drop(TaskInner(t))>> \o schedule_path

\* suspend_current_and_run_next: take the current task, mark it Ready, enqueue
\* it, schedule.
suspend_current_and_run_next_path(t) == take_current_task_path \o <<Borrow(TaskInner(t)), Drop(TaskInner(t))>> \o add_task_path \o schedule_path

\* sys_sleep
sys_sleep_path(t) == current_task_path \o <<Borrow(TIMERS), Drop(TIMERS)>> \o block_current_and_run_next_path(t)

\* sys_yield
sys_yield_path(t) == suspend_current_and_run_next_path(t)

\* The guard of process_inner is still held when the primitive is called.
sys_mutex_lock_path_held(t, branch) == <<Borrow(ProcessInner)>> \o sys_gettid_path(t) \o (IF branch = "refused" THEN <<Drop(ProcessInner)>> ELSE <<MayBlock, Drop(ProcessInner)>>)

\* sys_mutex_lock: on `return -0xdead` the guard is dropped as its scope ends;
\* otherwise drop(process_inner) comes before mutex.lock()
sys_mutex_lock_path(t, branch) == <<Borrow(ProcessInner)>> \o sys_gettid_path(t) \o (IF branch = "refused" THEN <<Drop(ProcessInner)>> ELSE <<Drop(ProcessInner), MayBlock>>)

\* sys_semaphore_down: as sys_mutex_lock, before sem.down()
sys_semaphore_down_path(t, branch) == <<Borrow(ProcessInner)>> \o sys_gettid_path(t) \o (IF branch = "refused" THEN <<Drop(ProcessInner)>> ELSE <<Drop(ProcessInner), MayBlock>>)

\* sys_condvar_wait: drop(process_inner), then condvar.wait(mutex)
sys_condvar_wait_path(t) == <<Borrow(ProcessInner), Drop(ProcessInner), MayBlock>>

\* sys_mutex_unlock, with mutex.unlock() waking a waiter (add_task) or not
sys_mutex_unlock_path(t, branch) == <<Borrow(ProcessInner)>> \o sys_gettid_path(t) \o <<Drop(ProcessInner)>> \o (IF branch = "wake" THEN add_task_path ELSE <<>>)

\* sys_semaphore_up, with sem.up() waking a waiter or not
sys_semaphore_up_path(t, branch) == <<Borrow(ProcessInner)>> \o sys_gettid_path(t) \o <<Drop(ProcessInner)>> \o (IF branch = "wake" THEN add_task_path ELSE <<>>)

\* sys_condvar_signal, with condvar.signal() waking a waiter or not
sys_condvar_signal_path(t, branch) == <<Borrow(ProcessInner), Drop(ProcessInner)>> \o (IF branch = "wake" THEN add_task_path ELSE <<>>)

Syscalls == {"sys_sleep", "sys_yield", "sys_mutex_lock", "sys_mutex_unlock", "sys_semaphore_down", "sys_semaphore_up", "sys_condvar_wait", "sys_condvar_signal"}

Branches == {"refused", "proceed", "wake"}

PathOf(call, t, branch) ==
    CASE call = "sys_sleep" -> sys_sleep_path(t)
      [] call = "sys_yield" -> sys_yield_path(t)
      [] call = "sys_mutex_lock" -> sys_mutex_lock_path(t, branch)
      [] call = "sys_mutex_unlock" -> sys_mutex_unlock_path(t, branch)
      [] call = "sys_semaphore_down" -> sys_semaphore_down_path(t, branch)
      [] call = "sys_semaphore_up" -> sys_semaphore_up_path(t, branch)
      [] call = "sys_condvar_wait" -> sys_condvar_wait_path(t)
      [] call = "sys_condvar_signal" -> sys_condvar_signal_path(t, branch)

Flows == Tids \cup {IDLE}

AccessUnchanged ==
    UNCHANGED <<overflow_checks, is_enable_deadlock_detect, ledger, tables,
                primitives, sched, ret, script, lock_rets, verdict, stride_state,
                family_state>>

\* The idle flow starts a turn of run_tasks that finds unit t.
StartRunTasks(t) ==
    /\ ~panicked
    /\ on_cpu = IDLE
    /\ kpath[IDLE] = <<>>
    /\ kpath' = [kpath EXCEPT ![IDLE] = run_tasks_path(t)]
    /\ UNCHANGED <<panicked, on_cpu, borrowed>>
    /\ AccessUnchanged

\* Thread t, at user level, traps into a system call.
StartSyscall(t, call, branch) ==
    /\ ~panicked
    /\ on_cpu = t
    /\ kpath[t] = <<>>
    /\ kpath' = [kpath EXCEPT ![t] = PathOf(call, t, branch)]
    /\ UNCHANGED <<panicked, on_cpu, borrowed>>
    /\ AccessUnchanged

\* exclusive_access() of a cell that is already borrowed panics.
BorrowStep ==
    /\ ~panicked
    /\ kpath[on_cpu] # <<>>
    /\ Head(kpath[on_cpu]).op = "borrow"
    /\ IF Head(kpath[on_cpu]).cell \in borrowed
       THEN /\ panicked' = TRUE
            /\ UNCHANGED <<kpath, borrowed>>
       ELSE /\ borrowed' = borrowed \cup {Head(kpath[on_cpu]).cell}
            /\ kpath' = [kpath EXCEPT ![on_cpu] = Tail(@)]
            /\ UNCHANGED panicked
    /\ UNCHANGED on_cpu
    /\ AccessUnchanged

DropStep ==
    /\ ~panicked
    /\ kpath[on_cpu] # <<>>
    /\ Head(kpath[on_cpu]).op = "drop"
    /\ borrowed' = borrowed \ {Head(kpath[on_cpu]).cell}
    /\ kpath' = [kpath EXCEPT ![on_cpu] = Tail(@)]
    /\ UNCHANGED <<panicked, on_cpu>>
    /\ AccessUnchanged

\* The primitive grants at once, or blocks the caller.
MayBlockStep ==
    /\ ~panicked
    /\ kpath[on_cpu] # <<>>
    /\ Head(kpath[on_cpu]).op = "may_block"
    /\ \/ kpath' = [kpath EXCEPT ![on_cpu] = Tail(@)]
       \/ kpath' = [kpath EXCEPT ![on_cpu] = block_current_and_run_next_path(on_cpu) \o Tail(@)]
    /\ UNCHANGED <<panicked, on_cpu, borrowed>>
    /\ AccessUnchanged

\* __switch: the processor goes on with the other control flow, where that one
\* left off.
SwitchStep ==
    /\ ~panicked
    /\ kpath[on_cpu] # <<>>
    /\ Head(kpath[on_cpu]).op = "switch"
    /\ on_cpu' = Head(kpath[on_cpu]).cell[2]
    /\ kpath' = [kpath EXCEPT ![on_cpu] = Tail(@)]
    /\ UNCHANGED <<panicked, borrowed>>
    /\ AccessUnchanged

AccessThreads == 2

InitAccess ==
    /\ overflow_checks \in BOOLEAN
    /\ InitProcess(AccessThreads, FALSE)
    /\ script = [t \in 0..(AccessThreads - 1) |-> <<>>]
    /\ lock_rets = [t \in 0..(AccessThreads - 1) |-> <<>>]
    /\ verdict = NO_VERDICT
    /\ NewStrides(AccessThreads)
    /\ kpath = [f \in (0..(AccessThreads - 1)) \cup {IDLE} |-> <<>>]
    /\ on_cpu = IDLE
    /\ borrowed = {}
    /\ NoChildren

NextAccess ==
    \/ \E t \in Tids : StartRunTasks(t)
    \/ \E t \in Tids, call \in Syscalls, branch \in Branches : StartSyscall(t, call, branch)
    \/ BorrowStep
    \/ DropStep
    \/ MayBlockStep
    \/ SwitchStep

SpecAccess == InitAccess /\ [][NextAccess]_vars

\* What the control flow on the processor does next.
NextEvent == IF kpath[on_cpu] = <<>> THEN "none" ELSE Head(kpath[on_cpu]).op

\* C18: no exclusive access is held across a context switch: every guard is
\* dropped before a call that may block (mutex.lock(), sem.down(),
\* condvar.wait()), before __switch in run_tasks and schedule (so in the
\* block_current_and_run_next of sys_sleep), and when a handler returns to user
\* level, the would-deadlock return included.
C18_NoAccessAcrossSwitch ==
    /\ ~panicked
    /\ NextEvent \in {"may_block", "switch"} => borrowed = {}
    /\ (on_cpu # IDLE /\ NextEvent = "none") => borrowed = {}

\* A thread dispatched by run_tasks has been through the ledger and stands
\* before the call of the primitive that may block it, all guards dropped,
\* while the other thread is yet to run.
C18_BeforePrimitive ==
    \E t \in Tids :
        /\ on_cpu = t
        /\ kpath[t] = <<MayBlock>>
        /\ borrowed = {}
        /\ kpath[IDLE] = <<>>

\* ------------------------------------------------------- detection disabled
NoDetectThreads == 2
NoDetectSlots == 3

\* Deadlock detection is off and stays off.
InitNoDetect ==
    /\ overflow_checks \in BOOLEAN
    /\ InitProcess(NoDetectThreads, FALSE)
    /\ NoScript(NoDetectThreads)

NextNoDetect ==
    \/ run_tasks /\ UNCHANGED <<script, lock_rets, verdict, stride_state, access_state, family_state>>
    \/ \E t \in Tids :
        /\ \/ OnlyMutexes /\ CallMutexCreate(t, BOOLEAN, NoDetectSlots)
           \/ CallMutexLock(t)
           \/ CallMutexUnlock(t)
           \/ OnlySemaphores /\ CallSemaphoreCreate(t, NoDetectSlots)
           \/ CallSemaphoreUp(t)
           \/ CallSemaphoreDown(t)
           \/ resume_blocked(t)
           \/ MutexSpin_lock_poll(t)
           \/ suspend_current_and_run_next(t)
        /\ UNCHANGED <<script, lock_rets, verdict, stride_state, access_state, family_state>>

SpecNoDetect == InitNoDetect /\ [][NextNoDetect]_vars

\* C19: with deadlock detection disabled, mutex_lock and semaphore_down never
\* return the would-deadlock sentinel: when the resource is unavailable the
\* caller's need is incremented, no safety check runs (so none can panic or
\* refuse), the primitive's acquire is entered, where the caller waits or is
\* granted, and a caller that waited returns 0 once it is granted.
C19_DisabledNeverRefuses ==
    [][\A t \in Tids :
          /\ \A m \in DOMAIN mutex_list :
                (~is_enable_deadlock_detect /\ sys_mutex_lock(t, m)) =>
                   /\ ret'[t] # WOULD_DEADLOCK
                   /\ mutex_available[m] = 0 =>
                         /\ ~panicked'
                         /\ mutex_need'[t][m] = AddU(mutex_need[t][m], 1)
                         /\ IF ~mutex_locked[m]
                            THEN mutex_holder'[m] = t /\ ret'[t] = 0
                            ELSE IF mutex_list[m] = "blocking"
                            THEN /\ task_status'[t] = "Blocked"
                                 /\ mutex_wait_queue'[m] = Append(mutex_wait_queue[m], t)
                            ELSE /\ task_status'[t] = "Ready"
                                 /\ pc'[t].at = "spin"
          /\ \A s \in DOMAIN semaphore_list :
                (~is_enable_deadlock_detect /\ sys_semaphore_down(t, s)) =>
                   /\ ret'[t] # WOULD_DEADLOCK
                   /\ semaphore_available[s] = 0 =>
                         /\ ~panicked'
                         /\ semaphore_need'[t][s] = AddU(semaphore_need[t][s], 1)
                         /\ IF sem_count[s] >= 1
                            THEN ret'[t] = 0
                            ELSE /\ task_status'[t] = "Blocked"
                                 /\ sem_wait_queue'[s] = Append(sem_wait_queue[s], t)
          /\ (~is_enable_deadlock_detect /\ resume_blocked(t)) => ret'[t] = 0]_vars

\* With detection disabled, a thread that already holds a blocking mutex has
\* asked for it again: it waits, with its need recorded, in a process with
\* more mutex slots than threads.
C19_WaitsUnrefused ==
    \E t \in Tids, m \in DOMAIN mutex_list :
        /\ ~is_enable_deadlock_detect
        /\ mutex_list[m] = "blocking"
        /\ mutex_holder[m] = t
        /\ mutex_allocation[t][m] = 1
        /\ mutex_need[t][m] = 1
        /\ task_status[t] = "Blocked"
        /\ mutex_wait_queue[m] = <<t>>
        /\ VecLen(mutex_list) > Cardinality(Tids)

\* ------------------------------------------------------- invalid handles
\* list[id].as_ref().unwrap(): the index is in bounds and the slot holds a
\* primitive
HandleValid(list, id) == id \in DOMAIN list /\ list[id] # "none"

\* The handlers that take a handle, and the table each looks it up in.
HandleCalls == {"sys_mutex_lock", "sys_mutex_unlock", "sys_semaphore_up", "sys_semaphore_down", "sys_condvar_signal", "sys_condvar_wait"}

HandleTable(call) ==
    CASE call \in {"sys_mutex_lock", "sys_mutex_unlock"} -> mutex_list
      [] call \in {"sys_semaphore_up", "sys_semaphore_down"} -> semaphore_list
      [] call \in {"sys_condvar_signal", "sys_condvar_wait"} -> condvar_list

\* A handler called with a handle that is out of bounds or names an empty
\* slot: the index or the unwrap() of its first statement panics.  For
\* sys_condvar_wait the handle is the condvar's, or the mutex's next to a valid
\* condvar.
sys_call_invalid_handle(t, call, id) ==
    /\ CanCall(t)
    /\ \/ ~HandleValid(HandleTable(call), id)
       \/ /\ call = "sys_condvar_wait"
          /\ \E c \in DOMAIN condvar_list : HandleValid(condvar_list, c)
          /\ ~HandleValid(mutex_list, id)
    /\ KernelPanic
    /\ UNCHANGED <<is_enable_deadlock_detect, ledger, tables, primitives>>

HandleThreads == 1
HandleSlots == 2

InitHandles ==
    /\ overflow_checks \in BOOLEAN
    /\ InitProcess(HandleThreads, FALSE)
    /\ NoScript(HandleThreads)

NextHandles ==
    \/ run_tasks /\ UNCHANGED <<script, lock_rets, verdict, stride_state, access_state, family_state>>
    \/ \E t \in Tids :
        /\ \/ OnlyMutexes /\ CallMutexCreate(t, BOOLEAN, HandleSlots)
           \/ OnlySemaphores /\ CallSemaphoreCreate(t, HandleSlots)
           \/ OnlyCondvars /\ CallCondvarCreate(t, HandleSlots)
           \/ CallRemoveMutex(t)
           \/ CallRemoveSemaphore(t)
           \/ CallRemoveCondvar(t)
           \/ CallMutexLock(t)
           \/ CallMutexUnlock(t)
           \/ CallEnableDeadlockDetect(t)
           \/ MutexSpin_lock_poll(t)
           \/ suspend_current_and_run_next(t)
           \/ \E call \in HandleCalls, id \in 0..HandleSlots : sys_call_invalid_handle(t, call, id)
        /\ UNCHANGED <<script, lock_rets, verdict, stride_state, access_state, family_state>>

SpecHandles == InitHandles /\ [][NextHandles]_vars

\* C20: a handle that is out of bounds or names an empty slot makes
\* mutex_lock, mutex_unlock, semaphore_up, semaphore_down, condvar_signal and
\* condvar_wait return an error value, with the process state unchanged and
\* the kernel running; and mutex_lock on a valid handle does not crash the
\* kernel either, whatever the numbers of slots and of threads.
C20_InvalidHandleRecoverable ==
    [][\A t \in Tids :
          /\ \A call \in HandleCalls, id \in 0..HandleSlots :
                sys_call_invalid_handle(t, call, id) =>
                   /\ ~panicked'
                   /\ ret'[t] < 0
                   /\ UNCHANGED <<ledger, tables, primitives>>
          /\ \A m \in DOMAIN mutex_list :
                (sys_mutex_lock(t, m) /\ ~AddOvf(mutex_allocation[t][m], 1))
                   => ~panicked']_vars

\* ------------------------------------------------------- the detection flag
ToggleThreads == 2
ToggleSlots == 1

InitToggle ==
    /\ overflow_checks \in BOOLEAN
    /\ InitProcess(ToggleThreads, FALSE)
    /\ NoScript(ToggleThreads)

\* Threads create, lock and unlock mutexes and set the flag to any value.
NextToggle ==
    \/ run_tasks /\ UNCHANGED <<script, lock_rets, verdict, stride_state, access_state, family_state>>
    \/ \E t \in Tids :
        /\ \/ CallMutexCreate(t, BOOLEAN, ToggleSlots)
           \/ CallMutexLock(t)
           \/ CallMutexUnlock(t)
           \/ CallEnableDeadlockDetect(t)
           \/ resume_blocked(t)
           \/ MutexSpin_lock_poll(t)
           \/ suspend_current_and_run_next(t)
        /\ UNCHANGED <<script, lock_rets, verdict, stride_state, access_state, family_state>>

SpecToggle == InitToggle /\ [][NextToggle]_vars

\* C21: enable_deadlock_detect(v) returns 0 and sets the flag to false for
\* v = 0 and to true for v = 1; for any other v it returns -1 and leaves the
\* flag as it was; the ledger matrices are unchanged in every case.
C21_EnableDetectContract ==
    [][\A t \in Tids, v \in 0..2 :
          sys_enable_deadlock_detect(t, v) =>
             /\ v = 0 => (is_enable_deadlock_detect' = FALSE /\ ret'[t] = 0)
             /\ v = 1 => (is_enable_deadlock_detect' = TRUE /\ ret'[t] = 0)
             /\ v \notin {0, 1} =>
                   /\ ret'[t] = -1
                   /\ is_enable_deadlock_detect' = is_enable_deadlock_detect
             /\ UNCHANGED ledger
             /\ ~panicked']_vars

\* Detection was switched on and a later call with another value was refused,
\* in a process whose thread holds a mutex.
C21_RefusedWhileEnabled ==
    \E t \in Tids, m \in DOMAIN mutex_list :
        /\ is_enable_deadlock_detect
        /\ current = t
        /\ ret[t] = -1
        /\ mutex_holder[m] = t
        /\ mutex_allocation[t][m] = 1
        /\ mutex_available[m] = 0

\* ------------------------------------------------------- priority admission
\* Priority 1 is admitted too.
PriorityAdmitted_from_one(prio) == 1 <= prio

\* if 2 <= _prio
PriorityAdmitted(prio) == 2 <= prio

\* set_current_priority: task_inner.task_priority = priority
set_current_priority(priority, t, prio) == [priority EXCEPT ![t] = prio]

\* sys_set_priority
sys_set_priority(t, prio) ==
    /\ CanCall(t)
    /\ IF PriorityAdmitted(prio)
       THEN /\ task_priority' = set_current_priority(task_priority, t, prio)
            /\ Return(t, prio)
       ELSE /\ UNCHANGED task_priority
            /\ Return(t, -1)
    /\ UNCHANGED <<build, is_enable_deadlock_detect, ledger, tables, primitives,
                   task_stride, task_dispatches>>

PriorityThreads == 2

\* Dispatches after which a thread no longer yields.
PriorityDispatches == 2

\* The values set_priority is called with: below, at and above the minimum.
PriorityArgs == {MinPriority - 1, MinPriority, MaxPriority}

\* New threads, of the default priority.
InitPriority ==
    /\ overflow_checks \in BOOLEAN
    /\ InitProcess(PriorityThreads, FALSE)
    /\ NoScript(PriorityThreads)

NextPriority ==
    \/ run_tasks_fetch
    \/ \E t \in Tids :
        /\ \/ /\ MayReturn(t)
              /\ task_dispatches[t] < PriorityDispatches
              /\ suspend_current_and_run_next(t)
              /\ UNCHANGED stride_state
           \/ \E prio \in PriorityArgs : sys_set_priority(t, prio)
        /\ UNCHANGED <<script, lock_rets, verdict, access_state, family_state>>

SpecPriority == InitPriority /\ [][NextPriority]_vars

\* C22: set_priority(p) with p >= 2 sets the caller's priority to p and
\* returns p; with p < 2 it returns -1 and leaves the priority as it was; no
\* other unit's priority changes; so every unit's priority is >= 2 in every
\* state and its pass BIG_STRIDE / priority is defined.
C22_PriorityAdmission ==
    /\ [](\A t \in Tids : task_priority[t] >= 2 /\ Pass(t) \in 0..BIG_STRIDE)
    /\ [][\A t \in Tids, prio \in PriorityArgs :
             sys_set_priority(t, prio) =>
                /\ prio >= 2 => (task_priority'[t] = prio /\ ret'[t] = prio)
                /\ prio < 2 => (task_priority'[t] = task_priority[t] /\ ret'[t] = -1)
                /\ \A u \in Tids \ {t} : task_priority'[u] = task_priority[u]
                /\ UNCHANGED <<task_stride, ledger>>]_vars

\* A unit that raised its priority from the default has been refused a
\* priority below 2 and has kept the priority it had set.
C22_RefusedKeepsPriority ==
    \E t \in Tids :
        /\ current = t
        /\ ret[t] = -1
        /\ task_priority[t] = MinPriority
        /\ task_dispatches[t] >= 2

\* ------------------------------------------------------- waitpid
\* `pid as usize`: a negative pid becomes a large unsigned number
AsUsize(pid) == pid % USIZE_MOD

\* Every negative pid stands for any child.
WaitMatches_negative(pid, p) == pid < 0 \/ AsUsize(pid) = p.pid

\* pid == -1 || pid as usize == p.getpid()
WaitMatches(pid, p) == pid = -1 \/ AsUsize(pid) = p.pid

\* inner.children.iter().any(..)
AnyChildMatches(pid) == \E k \in 1..Len(children) : WaitMatches(pid, children[k])

\* inner.children.iter().enumerate().find(..): the first zombie that matches,
\* as a position from 1, or 0 for None
FindZombie(pid) ==
    LET found == {k \in 1..Len(children) : children[k].zombie /\ WaitMatches(pid, children[k])}
    IN IF found = {} THEN 0 ELSE CHOOSE k \in found : \A j \in found : k <= j

\* sys_waitpid
sys_waitpid(t, pid) ==
    /\ CanCall(t)
    /\ IF ~AnyChildMatches(pid)
       THEN /\ Return(t, -1)
            /\ UNCHANGED family_state
       ELSE IF FindZombie(pid) = 0
       THEN /\ Return(t, -2)
            /\ UNCHANGED family_state
       ELSE LET idx == FindZombie(pid) IN
            /\ children' = RemoveAt(children, idx)
            /\ exit_code_out' = children[idx].exit_code
            /\ Return(t, children[idx].pid)
    /\ UNCHANGED <<build, is_enable_deadlock_detect, ledger, tables, primitives>>

MaxChildren == 2
MaxPid == 3
MaxExitCode == 1

\* The pid allocator hands out the lowest pid not in use.
FreshPid == CHOOSE p \in 1..MaxPid : /\ \A k \in 1..Len(children) : children[k].pid # p
                                     /\ \A q \in 1..(p - 1) : \E k \in 1..Len(children) : children[k].pid = q

\* sys_fork, in the parent: the new process joins the children and its pid is
\* returned.
sys_fork(t) ==
    /\ CanCall(t)
    /\ Len(children) < MaxChildren
    /\ children' = Append(children, [pid |-> FreshPid, zombie |-> FALSE, exit_code |-> 0])
    /\ Return(t, FreshPid)
    /\ UNCHANGED <<build, is_enable_deadlock_detect, ledger, tables, primitives,
                   exit_code_out>>

\* A child exits: it turns zombie and keeps its exit code for the parent.
child_exit(k, code) ==
    /\ ~panicked
    /\ k \in 1..Len(children)
    /\ ~children[k].zombie
    /\ children' = [children EXCEPT ![k] = [@ EXCEPT !.zombie = TRUE, !.exit_code = code]]
    /\ UNCHANGED <<build, is_enable_deadlock_detect, ledger, tables, primitives,
                   sched, ret, exit_code_out>>

WaitThreads == 1

\* The pids waitpid is called with: any child, no child's, each pid in use.
WaitArgs == (-2)..MaxPid

InitWait ==
    /\ overflow_checks \in BOOLEAN
    /\ InitProcess(WaitThreads, FALSE)
    /\ NoScript(WaitThreads)

NextWait ==
    \/ run_tasks /\ UNCHANGED <<script, lock_rets, verdict, stride_state, access_state, family_state>>
    \/ \E t \in Tids :
        /\ \/ sys_fork(t)
           \/ \E pid \in WaitArgs : sys_waitpid(t, pid)
           \/ \E k \in 1..MaxChildren, code \in 0..MaxExitCode : child_exit(k, code)
           \/ suspend_current_and_run_next(t) /\ UNCHANGED family_state
        /\ UNCHANGED <<script, lock_rets, verdict, stride_state, access_state>>

SpecWait == InitWait /\ [][NextWait]_vars

\* C23: waitpid(pid) returns -1 and changes nothing when no child matches pid
\* (-1 matches any child); returns -2 and changes nothing when children match
\* but none of them is a zombie; otherwise it removes exactly the first
\* matching zombie from the children list, reports that child's exit code and
\* returns its pid, which is then no child's pid: a child is reaped once.
C23_WaitpidContract ==
    [][\A t \in Tids, pid \in WaitArgs :
          sys_waitpid(t, pid) =>
             LET match == {k \in 1..Len(children) : pid = -1 \/ pid = children[k].pid}
                 zombies == {k \in match : children[k].zombie}
             IN /\ match = {} => (ret'[t] = -1 /\ UNCHANGED family_state)
                /\ (match # {} /\ zombies = {}) => (ret'[t] = -2 /\ UNCHANGED family_state)
                /\ zombies # {} =>
                      \E k \in zombies :
                         /\ \A j \in zombies : k <= j
                         /\ ret'[t] = children[k].pid
                         /\ exit_code_out' = children[k].exit_code
                         /\ children' = SubSeq(children, 1, k - 1) \o SubSeq(children, k + 1, Len(children))
                         /\ \A j \in 1..Len(children') : children'[j].pid # ret'[t]
                /\ ~panicked']_vars

\* waitpid has reaped a zombie with a non-zero exit code that was not the
\* first child, and another child is left.
C23_ReapedSecond ==
    \E t \in Tids :
        /\ current = t
        /\ ret[t] >= 2
        /\ exit_code_out = MaxExitCode
        /\ Len(children) = 1
        /\ children[1].pid < ret[t]
        /\ ~children[1].zombie

InSeq(x, q) == \E k \in 1..Len(q) : q[k] = x

\* C24: condvar_signal returns 0 and wakes at most one waiter: with waiters
\* queued it makes exactly the first of them Ready and takes it off the
\* queue; with an empty queue it changes no state.  Signals are not
\* remembered: a thread waiting on a condvar is Blocked, whatever signals came
\* before, and stops being Blocked only by a signal on that condvar.
C24_CondvarSignalWakesOne ==
    [][/\ \A t \in Tids, c \in DOMAIN condvar_list :
             sys_condvar_signal(t, c) =>
                /\ ret'[t] = 0
                /\ IF condvar_wait_queue[c] = <<>>
                   THEN UNCHANGED <<ledger, tables, primitives, task_status,
                                    current, ready_queue, pc, build>>
                   ELSE LET w == Head(condvar_wait_queue[c]) IN
                        /\ task_status'[w] = "Ready"
                        /\ ready_queue' = Append(ready_queue, w)
                        /\ condvar_wait_queue'[c] = Tail(condvar_wait_queue[c])
                        /\ \A u \in Tids \ {w} : task_status'[u] = task_status[u]
       /\ \A w \in Tids, c \in DOMAIN condvar_list :
             InSeq(w, condvar_wait_queue[c]) =>
                /\ task_status[w] = "Blocked"
                /\ task_status'[w] # "Blocked" =>
                      /\ Head(condvar_wait_queue[c]) = w
                      /\ \E t \in Tids : sys_condvar_signal(t, c)]_vars

\* One signal has woken the first of two waiters: it is Ready, not yet
\* resumed, and the second is still Blocked on the condvar.
C24_OneOfTwoWoken ==
    \E w1, w2 \in Tids, c \in DOMAIN condvar_list :
        /\ w1 # w2
        /\ task_status[w1] = "Ready"
        /\ pc[w1] = [at |-> "wait_wake", id |-> c]
        /\ condvar_wait_queue[c] = <<w2>>
        /\ task_status[w2] = "Blocked"

\* ------------------------------------------------------- the safety loop, pass by pass
LoopThreads == 2
LoopSlots == 2

\* Thread 0 is inside sys_mutex_lock, about to enter `while cnt != tnum`, over
\* any ledger of up to LoopThreads rows and LoopSlots columns whose entries
\* are 0 or 1; verdict holds the loop's variables and the passes made.
InitLoop ==
    /\ overflow_checks \in BOOLEAN
    /\ \E T \in 1..LoopThreads, R \in 1..LoopSlots :
        /\ panicked = FALSE
        /\ is_enable_deadlock_detect = TRUE
        /\ mutex_list = [m \in 0..(R - 1) |-> "blocking"]
        /\ mutex_available \in [0..(R - 1) -> {0, 1}]
        /\ mutex_allocation \in [0..(T - 1) -> [0..(R - 1) -> {0, 1}]]
        /\ mutex_need \in [0..(T - 1) -> [0..(R - 1) -> {0, 1}]]
        /\ mutex_locked = [m \in 0..(R - 1) |-> mutex_available[m] = 0]
        /\ mutex_wait_queue = [m \in 0..(R - 1) |-> <<>>]
        /\ mutex_holder = [m \in 0..(R - 1) |-> NO_TID]
        /\ semaphore_list = EmptyVec
        /\ semaphore_available = EmptyVec
        /\ semaphore_allocation = [t \in 0..(T - 1) |-> EmptyVec]
        /\ semaphore_need = [t \in 0..(T - 1) |-> EmptyVec]
        /\ sem_count = EmptyVec
        /\ sem_wait_queue = EmptyVec
        /\ sem_total = EmptyVec
        /\ condvar_list = EmptyVec
        /\ condvar_wait_queue = EmptyVec
        /\ task_status = [t \in 0..(T - 1) |-> IF t = 0 THEN "Running" ELSE "Ready"]
        /\ current = 0
        /\ ready_queue = SeqOf(1..(T - 1))
        /\ pc = [t \in 0..(T - 1) |-> [at |-> "user", id |-> 0]]
        /\ ret = [t \in 0..(T - 1) |-> 0]
        /\ script = [t \in 0..(T - 1) |-> <<>>]
        /\ lock_rets = [t \in 0..(T - 1) |-> <<>>]
        /\ NewStrides(T)
        /\ NoPath
        /\ NoChildren
        /\ verdict = [at |-> "while", passes |-> 0,
                      work |-> mutex_available,
                      finish |-> [i \in 0..(R - 1) |-> FALSE],
                      cnt |-> 0, panic |-> FALSE, ovf |-> FALSE]

LoopUnchanged ==
    UNCHANGED <<overflow_checks, is_enable_deadlock_detect, ledger, tables, primitives,
                sched, ret, script, lock_rets, stride_state, access_state, family_state>>

\* One pass of `while cnt != tnum`: cnt = 0, then the for loop over the
\* threads.  An index out of bounds inside the pass panics the kernel.
WhilePass ==
    /\ ~panicked
    /\ verdict.at = "while"
    /\ verdict.cnt # ThreadCount(mutex_list)
    /\ LET st == BankerFor(0, [verdict EXCEPT !.cnt = 0], mutex_allocation, mutex_need,
                           ThreadCount(mutex_list), VecLen(mutex_available))
       IN /\ verdict' = [st EXCEPT !.passes = @ + 1]
          /\ panicked' = (st.panic \/ (overflow_checks /\ st.ovf))
    /\ LoopUnchanged

\* The loop condition fails: the handler goes on to `for f in finish`.
WhileExit ==
    /\ ~panicked
    /\ verdict.at = "while"
    /\ verdict.cnt = ThreadCount(mutex_list)
    /\ verdict' = [verdict EXCEPT !.at = "done"]
    /\ UNCHANGED panicked
    /\ LoopUnchanged

NextLoop == WhilePass \/ WhileExit

SpecLoop == InitLoop /\ [][NextLoop]_vars

Finished(st) == {i \in DOMAIN st.finish : st.finish[i]}

\* C25: the safety loop terminates on every ledger: each pass of the while
\* loop finishes at least one more thread or ends with cnt = tnum, so the loop
\* makes at most tnum + 1 passes; and no pass suspends the caller or changes
\* the scheduler's state.
C25_SafetyLoopTerminates ==
    /\ [](verdict.passes <= ThreadCount(mutex_list) + 1)
    /\ [][WhilePass =>
             /\ \/ Cardinality(Finished(verdict')) > Cardinality(Finished(verdict))
                \/ verdict'.cnt = ThreadCount(mutex_list)
             /\ ~panicked'
             /\ UNCHANGED <<sched, ledger>>]_vars

\* ------------------------------------------------------- stride advance
\* C26: each successful fetch() advances the stride of the unit it selects by
\* exactly that unit's pass BIG_STRIDE / priority, once, and that unit is the
\* one removed from the queue; it changes no other unit's stride and no
\* priority; adding a unit to the ready queue changes no stride or priority.
C26_FetchAdvancesSelected ==
    [][/\ (run_tasks_fetch /\ ready_queue # <<>>) =>
              /\ current' \in Tids
              /\ InSeq(current', ready_queue) /\ ~InSeq(current', ready_queue')
              /\ task_stride'[current'] = task_stride[current'] + Pass(current')
              /\ \A u \in Tids \ {current'} : task_stride'[u] = task_stride[u]
              /\ task_priority' = task_priority
       /\ Len(ready_queue') > Len(ready_queue) =>
              UNCHANGED <<task_stride, task_priority>>]_vars

\* A woken sleeper has been fetched a second time from behind a queued unit
\* of another priority: its stride is two of its own passes, the strides of
\* the queued units are what their own dispatches made them.
C26_AdvancedBehindHead ==
    \E t \in Tids :
        /\ current = t
        /\ pc[t].at = "sleep_return"
        /\ task_dispatches[t] = 2
        /\ task_stride[t] = 2 * Pass(t)
        /\ ready_queue # <<>>
        /\ \A j \in 1..Len(ready_queue) :
              /\ task_priority[ready_queue[j]] # task_priority[t]
              /\ task_stride[ready_queue[j]]
                    = task_dispatches[ready_queue[j]] * Pass(ready_queue[j])
              /\ task_dispatches[ready_queue[j]] >= 1

\* ------------------------------------------------------- stride wraparound
\* Threads of the wraparound specification, and the dispatches after which a
\* thread of it only exits.
WrapThreads == 3
WrapDispatches == 5

\* The threads of the process, Ready, with stride 0 and priorities set by
\* earlier set_priority calls.
InitWrap ==
    /\ overflow_checks \in BOOLEAN
    /\ InitProcess(WrapThreads, FALSE)
    /\ script = [t \in 0..(WrapThreads - 1) |-> <<>>]
    /\ lock_rets = [t \in 0..(WrapThreads - 1) |-> <<>>]
    /\ verdict = NO_VERDICT
    /\ NoPath
    /\ NoChildren
    /\ task_stride = [t \in 0..(WrapThreads - 1) |-> 0]
    /\ task_priority \in [0..(WrapThreads - 1) -> Priorities]
    /\ task_dispatches = [t \in 0..(WrapThreads - 1) |-> 0]

\* The threads yield and are dispatched again, their strides free to pass the
\* counter's maximum, and exit.
NextWrap ==
    \/ run_tasks_fetch
    \/ \E t \in Tids :
        /\ \/ task_dispatches[t] < WrapDispatches /\ suspend_current_and_run_next(t)
           \/ sys_exit(t)
        /\ UNCHANGED <<script, lock_rets, verdict, stride_state, access_state, family_state>>

SpecWrap == InitWrap /\ [][NextWrap]_vars

\* Stride a is behind stride b in circular distance: b is reached from a by
\* advancing less than half the counter's range.
CircularBehind(a, b) == a # b /\ SubU(b, a) < USIZE_MOD \div 2

\* C27: the minimum fetch() selects is wraparound-aware: no queued unit is
\* behind the selected unit in circular distance, so a stride that has wrapped
\* past the counter's maximum is not taken for the minimum ahead of strides
\* that have not wrapped.
C27_FetchCircularMinimum ==
    [][(run_tasks_fetch /\ ready_queue # <<>>) =>
          \A j \in 1..Len(ready_queue) :
              ~CircularBehind(task_stride[ready_queue[j]], task_stride[current'])]_vars

\* ------------------------------------------------------- ledger and primitive
\* C28: at every quiescent point, for every mutex m, mutex_available[m] is 0
\* exactly when the mutex primitive is held, and mutex_allocation[t][m] is 1
\* exactly for the thread t that holds it: also while a thread is blocked in
\* condvar_wait, after it is woken, and after a spinning mutex is acquired by
\* a thread that first found it unavailable.
C28_LedgerMatchesPrimitive ==
    ~panicked =>
        \A m \in DOMAIN mutex_list :
            mutex_list[m] # "none" =>
                /\ mutex_available[m] = 0 <=> mutex_locked[m]
                /\ \A t \in Tids : mutex_allocation[t][m] = 1 <=> mutex_holder[m] = t

\* ------------------------------------------------------- need and waiters
\* The resources thread t is recorded as waiting for.
NeededMutexes(t) == {m \in DOMAIN mutex_need[t] : mutex_need[t][m] > 0}
NeededSemaphores(t) == {s \in DOMAIN semaphore_need[t] : semaphore_need[t][s] > 0}

\* C29: at every quiescent point, for every blocking mutex or semaphore r,
\* the sum over the threads of need[t][r] is the number of threads in r's
\* wait queue, available[r] > 0 implies that r's wait queue is empty, and
\* every thread has at most one positive need entry.
C29_NeedCountsWaiters ==
    ~panicked =>
        /\ \A m \in DOMAIN mutex_list :
              mutex_list[m] = "blocking" =>
                  /\ SumOver(Tids, mutex_need, m) = Len(mutex_wait_queue[m])
                  /\ mutex_available[m] > 0 => mutex_wait_queue[m] = <<>>
        /\ \A s \in DOMAIN semaphore_list :
              semaphore_list[s] # "none" =>
                  /\ SumOver(Tids, semaphore_need, s) = Len(sem_wait_queue[s])
                  /\ semaphore_available[s] > 0 => sem_wait_queue[s] = <<>>
        /\ \A t \in Tids :
              Cardinality(NeededMutexes(t)) + Cardinality(NeededSemaphores(t)) <= 1

====
